---------------------------- MODULE Spec2Model ----------------------------
(***************************************************************************)
(* A model of cargo-capslock: the capability propagation over the call     *)
(* graph (src/src/graph.rs), the function map (src/src/function.rs) and    *)
(* the dynamic tracer's event handlers (src/src/runtime/mod.rs,            *)
(* src/src/dynamic/process.rs, src/src/dynamic/syscall/mod.rs).            *)
(*                                                                         *)
(* Indices into the function array are 0-based as in the code; the array   *)
(* itself is a TLA+ sequence, so position idx is element idx + 1.          *)
(***************************************************************************)
EXTENDS Integers, Sequences, FiniteSets, TLC

VARIABLES
    functions,         \* FunctionMap handed to bubble / upsert (static analysis, tests)
    call_graph,        \* CallGraph handed to bubble: edges in all_edges() order
    before,            \* the function array as it was when bubble was called
    pc,                \* position inside bubble_transitive_capabilities
    edge_idx,          \* position of the `for` loop over all_edges()
    changed,           \* the local `changed` of bubble
    processes,         \* GlobalState.processes : process::Map
    include_syscalls,  \* GlobalState.include_syscalls
    userdata,          \* the Meta attached to the syscall event in flight, per pid
    nevents,           \* number of events handled so far
    report_function,   \* the report::Function insert_capability works on
    process,           \* the report::Process handed to the serializer
    serialized,        \* the JSON value the serializer wrote for it
    syscalls_cm,       \* capslock-seccomp: the records of the cm document read
    cap_map,           \* capslock-seccomp: the CapabilityMap
    requested,         \* capslock-seccomp: the capabilities read from the input
    policy,            \* capslock-seccomp: the Policy being built
    output,            \* capslock-seccomp: the document written to stdout
    argument,          \* the input of the library function under call
    returned,          \* what the call returned
    last               \* the operation handled last, its input and its outcome

vars == <<functions, call_graph, before, pc, edge_idx, changed,
          processes, include_syscalls, userdata, nevents,
          report_function, process, serialized,
          syscalls_cm, cap_map, requested, policy, output,
          argument, returned, last>>

bubbleVars == <<functions, call_graph, before, pc, edge_idx, changed>>
tracerVars == <<processes, include_syscalls, userdata, nevents>>
reportVars == <<report_function, process, serialized>>
seccompVars == <<syscalls_cm, cap_map, requested, policy, output>>
callVars == <<argument, returned>>

-----------------------------------------------------------------------------
(* Bounds of the model *)

\* functions of the enumerated call graphs
NumFns == 3
\* edges of the enumerated call graphs
MaxEdges == 2

-----------------------------------------------------------------------------
(* capslock/src/caps.rs *)

Capability ==
    {"UNSPECIFIED", "SAFE", "FILES", "NETWORK", "RUNTIME", "READ_SYSTEM_STATE",
     "MODIFY_SYSTEM_STATE", "OPERATING_SYSTEM", "SYSTEM_CALLS",
     "ARBITRARY_EXECUTION", "CGO", "UNANALYZED", "UNSAFE_POINTER", "REFLECT",
     "EXEC", "DYNAMIC_LOADING", "INSTRUMENTATION", "NATIVE_CODE"}

CapabilityType == {"Unspecified", "Direct", "Transitive"}

\* the discriminants of #[repr(u32)] enum CapabilityType
Discriminant(t) ==
    CASE t = "Unspecified" -> 0
      [] t = "Direct" -> 1
      [] t = "Transitive" -> 2

\* the order a derived Ord would give: by discriminant
TypeCmpDerived(a, b) ==
    IF Discriminant(a) < Discriminant(b) THEN -1
    ELSE IF Discriminant(a) = Discriminant(b) THEN 0 ELSE 1

\* impl Ord for CapabilityType: cmp(a, b) as -1 (Less), 0 (Equal), 1 (Greater)
TypeCmp(a, b) ==
    CASE a = "Direct" /\ b = "Direct" -> 0
      [] a = "Direct" -> 1
      [] a = "Transitive" /\ b = "Direct" -> -1
      [] a = "Transitive" /\ b = "Transitive" -> 0
      [] a = "Transitive" -> 1
      [] a = "Unspecified" /\ b = "Unspecified" -> 0
      [] OTHER -> -1

TypeLeq(a, b) == TypeCmp(a, b) <= 0

-----------------------------------------------------------------------------
(* capslock/src/report.rs, src/src/function.rs *)

\* a capability map BTreeMap<Capability, CapabilityType> is a function whose
\* domain is the set of its keys
NoCaps == [c \in {} |-> "Direct"]

CapMap(caps, ty) == [c \in caps |-> ty]

\* report::Function; the location is None throughout (no debug info is modelled)
Function(name, capabilities) ==
    [name |-> name, capabilities |-> capabilities, syscalls |-> {}]

\* std::cmp::max(v1, v2): v1 when v1 > v2, else v2
StdMax(v1, v2) == IF TypeCmp(v1, v2) = 1 THEN v1 ELSE v2

\* Function::insert_capability
InsertCapability(function, capability, ty) ==
    [function EXCEPT !.capabilities =
        IF capability \in DOMAIN @
        THEN [@ EXCEPT ![capability] = StdMax(@, ty)]
        ELSE (capability :> ty) @@ @]

\* FunctionMap::default()
EmptyFunctionMap == [functions |-> <<>>, ids |-> [n \in {} |-> 0]]

\* FunctionMap::get(idx) is Some
ValidIdx(fm, idx) == idx + 1 \in DOMAIN fm.functions

\* FunctionMap::get(idx).unwrap()
Get(fm, idx) == fm.functions[idx + 1]

UpsertNoDedup(fm, mangled, function) ==
    [map |-> [functions |-> Append(fm.functions, function),
              ids |-> [n \in DOMAIN fm.ids \cup {mangled} |->
                          IF n = mangled THEN Len(fm.functions) ELSE fm.ids[n]]],
     idx |-> Len(fm.functions)]

\* FunctionMap::upsert(mangled, function): the map after the call and the
\* index returned
Upsert(fm, mangled, function) ==
    IF mangled \in DOMAIN fm.ids
    THEN [map |-> fm, idx |-> fm.ids[mangled]]
    ELSE [map |-> [functions |-> Append(fm.functions, function),
                   ids |-> [n \in DOMAIN fm.ids \cup {mangled} |->
                               IF n = mangled THEN Len(fm.functions) ELSE fm.ids[n]]],
          idx |-> Len(fm.functions)]

-----------------------------------------------------------------------------
(* src/src/graph.rs *)

\* DiGraphMap::add_edge(from, to, None): all_edges() yields the edges in the
\* order of their first insertion; adding an existing edge keeps its place
AddEdge(g, from, to) ==
    IF \E i \in DOMAIN g : g[i] = <<from, to>> THEN g ELSE Append(g, <<from, to>>)

EdgeSet(g) == {g[i] : i \in DOMAIN g}

Keys(f) == DOMAIN f.capabilities

BubbleEdgeOverwrite(fs, e) ==
    LET callee_caps == Keys(fs[e[2] + 1])
        caller == fs[e[1] + 1]
    IN  [fs EXCEPT ![e[1] + 1].capabilities =
            [c \in Keys(caller) \cup callee_caps |->
                IF c \in callee_caps THEN "Transitive" ELSE caller.capabilities[c]]]

BubbleEdgeDirect(fs, e) ==
    LET callee_caps == Keys(fs[e[2] + 1])
        caller == fs[e[1] + 1]
    IN  [fs EXCEPT ![e[1] + 1].capabilities =
            [c \in Keys(caller) \cup callee_caps |->
                IF c \in Keys(caller) THEN caller.capabilities[c] ELSE "Direct"]]

\* the body of the `for` loop of bubble for one edge (caller, callee): the
\* function array after it
BubbleEdge(fs, e) ==
    LET callee_caps == Keys(fs[e[2] + 1])
        caller == fs[e[1] + 1]
    IN  [fs EXCEPT ![e[1] + 1].capabilities =
            [c \in Keys(caller) \cup callee_caps |->
                IF c \in Keys(caller) THEN caller.capabilities[c] ELSE "Transitive"]]

EdgeInsertsAlways(fs, e) == Keys(fs[e[2] + 1]) # {}

\* whether that body sets `changed`
EdgeInserts(fs, e) == \E c \in Keys(fs[e[2] + 1]) : c \notin Keys(fs[e[1] + 1])

-----------------------------------------------------------------------------
(* src/src/runtime/fd.rs *)

\* fd::Meta::new(flags, ty); flags is the set of the O_* bits that are set
FdMeta(flags, ty) == [flags |-> flags, ty |-> ty]

IsCloexecNever(meta) == FALSE

\* fd::Meta::is_cloexec
IsCloexec(meta) == "O_CLOEXEC" \in meta.flags

\* fd::Type values
TypeBlock(path) == [kind |-> "Block", path |-> path]
TypeChar(path) == [kind |-> "Char", path |-> path]
TypeDirectory(path) == [kind |-> "Directory", path |-> path]
TypeFifo == [kind |-> "Fifo"]
TypeFile(path) == [kind |-> "File", path |-> path]
TypeSocket(domain, ty) == [kind |-> "Socket", domain |-> domain, ty |-> ty]
TypeSocketInode(inode) == [kind |-> "SocketInode", inode |-> inode]
TypeUnknown == [kind |-> "Unknown"]

\* what fd::Meta::try_from_procfs(pid, fd) yields: an error (fdinfo or the fd
\* link cannot be read), or the Meta of the flags read and of the type that
\* Type::try_from_procfs gives the link, which is never Type::Socket
ProcfsErr == [ok |-> FALSE, meta |-> FdMeta({}, TypeUnknown)]
ProcfsOk(meta) == [ok |-> TRUE, meta |-> meta]

-----------------------------------------------------------------------------
(* src/src/dynamic/process.rs *)

\* Exec::new(command, argv, envp); argv and envp are never read
Exec(command) == [command |-> command]

NoFds == [fd \in {} |-> FdMeta({}, TypeFile(<<>>))]

\* the State that Map::new builds for the init pid
InitState(pid, exec, wd, include_before_start) ==
    [execs |-> <<exec>>,
     fds |-> NoFds,
     pid |-> pid,
     waiting_for_start |-> ~include_before_start,
     wd |-> wd,
     call_graph |-> <<>>,
     caps |-> {},
     functions |-> EmptyFunctionMap]

\* Map::new
MapNew(init_pid, init_exec, init_wd, include_before_start) ==
    [active |-> [p \in {init_pid} |->
                    InitState(init_pid, init_exec, init_wd, include_before_start)],
     inactive |-> <<>>,
     include_before_start |-> include_before_start,
     init_pid |-> init_pid]

MapExitAlsoInit(map, pid) ==
    IF pid \in DOMAIN map.active
    THEN [map EXCEPT
            !.active = [p \in DOMAIN map.active \ {pid} |-> map.active[p]],
            !.inactive = Append(@, <<pid, map.active[pid]>>)]
    ELSE map

\* Map::exit
MapExit(map, pid) ==
    IF pid # map.init_pid /\ pid \in DOMAIN map.active
    THEN [map EXCEPT
            !.active = [p \in DOMAIN map.active \ {pid} |-> map.active[p]],
            !.inactive = Append(@, <<pid, map.active[pid]>>)]
    ELSE map

\* a child State that starts with the parent's capabilities and exec queue
ChildStateInheritCaps(map, parent, child) ==
    [execs |-> parent.execs,
     fds |-> [fd \in {x \in DOMAIN parent.fds : ~IsCloexec(parent.fds[x])} |->
                 parent.fds[fd]],
     pid |-> child,
     waiting_for_start |-> ~map.include_before_start,
     wd |-> parent.wd,
     call_graph |-> <<>>,
     caps |-> parent.caps,
     functions |-> EmptyFunctionMap]

\* a child State that starts with the parent's call graph and an empty
\* function map
ChildStateInheritGraph(map, parent, child) ==
    [execs |-> <<>>,
     fds |-> [fd \in {x \in DOMAIN parent.fds : ~IsCloexec(parent.fds[x])} |->
                 parent.fds[fd]],
     pid |-> child,
     waiting_for_start |-> ~map.include_before_start,
     wd |-> parent.wd,
     call_graph |-> parent.call_graph,
     caps |-> {},
     functions |-> EmptyFunctionMap]

\* the State that Map::spawn builds for the child
ChildState(map, parent, child) ==
    [execs |-> <<>>,
     fds |-> [fd \in {x \in DOMAIN parent.fds : ~IsCloexec(parent.fds[x])} |->
                 parent.fds[fd]],
     pid |-> child,
     waiting_for_start |-> ~map.include_before_start,
     wd |-> parent.wd,
     call_graph |-> <<>>,
     caps |-> {},
     functions |-> EmptyFunctionMap]

SpawnAllFds(map, parent, child) ==
    IF parent \notin DOMAIN map.active
    THEN [err |-> "ProcessFind", map |-> map]
    ELSE [err |-> "",
          map |-> [map EXCEPT !.active =
                    [p \in DOMAIN map.active \cup {child} |->
                        IF p = child
                        THEN [ChildState(map, map.active[parent], child) EXCEPT
                                !.fds = map.active[parent].fds]
                        ELSE map.active[p]]]]

\* Map::spawn: the error ("" for Ok) and the map after the call
Spawn(map, parent, child) ==
    IF parent \notin DOMAIN map.active
    THEN [err |-> "ProcessFind", map |-> map]
    ELSE [err |-> "",
          map |-> [map EXCEPT !.active =
                    [p \in DOMAIN map.active \cup {child} |->
                        IF p = child
                        THEN ChildState(map, map.active[parent], child)
                        ELSE map.active[p]]]]

\* State::add_exec
AddExec(state, exec) == [state EXCEPT !.execs = Append(@, exec)]

\* State::close
Close(state, fd) ==
    [state EXCEPT !.fds = [x \in DOMAIN state.fds \ {fd} |-> state.fds[x]]]

\* a close_range whose range leaves out its upper end
CloseRangeExclusive(state, fd, max_fd) ==
    [state EXCEPT !.fds = [x \in {y \in DOMAIN state.fds : ~(fd <= y /\ y < max_fd)} |->
                              state.fds[x]]]

\* State::close_range: fds.retain(|fd, _| !range.contains(fd)) for the
\* inclusive range fd..=max_fd
CloseRange(state, fd, max_fd) ==
    [state EXCEPT !.fds = [x \in {y \in DOMAIN state.fds : ~(fd <= y /\ y <= max_fd)} |->
                              state.fds[x]]]

\* State::extend_caps
ExtendCaps(state, caps) == [state EXCEPT !.caps = @ \cup caps]

\* an infer_fd that records the descriptor as Unknown when procfs fails
InferFdOnFailure(state, fd, procfs) ==
    [err |-> IF procfs.ok THEN "" ELSE "Procfs",
     state |-> [state EXCEPT !.fds = [x \in DOMAIN state.fds \cup {fd} |->
                               IF x = fd THEN procfs.meta ELSE state.fds[x]]]]

\* State::infer_fd: the error ("" for Ok) and the state after the call
InferFd(state, fd, procfs) ==
    IF procfs.ok
    THEN [err |-> "",
          state |-> [state EXCEPT !.fds = [x \in DOMAIN state.fds \cup {fd} |->
                                    IF x = fd THEN procfs.meta ELSE state.fds[x]]]]
    ELSE [err |-> "Procfs", state |-> state]

\* State::insert_fd
InsertFd(state, fd, meta) ==
    [state EXCEPT !.fds = [x \in DOMAIN state.fds \cup {fd} |->
                              IF x = fd THEN meta ELSE state.fds[x]]]

\* Path::is_absolute, for a path held as the sequence of its components
IsAbsolute(path) == path # <<>> /\ path[1] = "/"

\* Path::join: an absolute argument replaces the base
Join(base, path) == IF IsAbsolute(path) THEN path ELSE base \o path

\* State::resolve
Resolve(state, path) == Join(state.wd, path)

\* State::set_working_directory
SetWorkingDirectory(state, path) == [state EXCEPT !.wd = path]

\* State::start_seen
StartSeen(state) == [state EXCEPT !.waiting_for_start = FALSE]

\* an add_edge that takes its arguments as (to, from)
AddStateEdgeReversed(state, from, to) ==
    [state EXCEPT !.call_graph = AddEdge(@, to, from)]

\* State::upsert_function followed by State::add_edge, as the attribution
\* loop calls them
AddStateEdge(state, from, to) ==
    [state EXCEPT !.call_graph = AddEdge(@, from, to)]

\* State::into_process
IntoProcess(state) ==
    [path |-> IF state.execs # <<>> THEN state.execs[1].command ELSE <<>>,
     capabilities |-> state.caps,
     functions |-> state.functions.functions,
     edges |-> state.call_graph]

RECURSIVE ValuesFrom(_, _)
\* BTreeMap::into_values of the pids >= p: the states in ascending pid order
ValuesFrom(active, p) ==
    IF \A q \in DOMAIN active : q < p THEN <<>>
    ELSE IF p \in DOMAIN active THEN <<active[p]>> \o ValuesFrom(active, p + 1)
    ELSE ValuesFrom(active, p + 1)

\* into_report listing the exited processes before the active ones
IntoReportExitedFirst(map, include_children) ==
    IF map.init_pid \notin DOMAIN map.active
    THEN [err |-> "ChildMissing", processes |-> <<>>]
    ELSE LET rest == [p \in DOMAIN map.active \ {map.init_pid} |-> map.active[p]]
             others == [i \in DOMAIN map.inactive |-> map.inactive[i][2]]
                       \o ValuesFrom(rest, 0)
         IN  [err |-> "",
              processes |->
                <<IntoProcess(map.active[map.init_pid])>>
                \o (IF include_children
                    THEN [i \in DOMAIN others |-> IntoProcess(others[i])]
                    ELSE <<>>)]

\* Map::into_report: the error ("" for Ok) and the processes of the report
IntoReport(map, include_children) ==
    IF map.init_pid \notin DOMAIN map.active
    THEN [err |-> "ChildMissing", processes |-> <<>>]
    ELSE LET rest == [p \in DOMAIN map.active \ {map.init_pid} |-> map.active[p]]
             others == ValuesFrom(rest, 0)
                       \o [i \in DOMAIN map.inactive |-> map.inactive[i][2]]
         IN  [err |-> "",
              processes |->
                <<IntoProcess(map.active[map.init_pid])>>
                \o (IF include_children
                    THEN [i \in DOMAIN others |-> IntoProcess(others[i])]
                    ELSE <<>>)]

-----------------------------------------------------------------------------
(* src/src/dynamic/syscall/mod.rs *)

\* The syscall -> capabilities table behind crate::syscall::lookup. The table
\* (syscalls.cm) is not among the sources: the rows are the spec's example,
\* plus open, execve, chdir, close and ioctl, which the tracer's typed
\* syscalls need.
SyscallTable ==
    [nr \in {"read", "write", "sendto", "openat", "socket", "exit_group",
             "open", "execve", "chdir", "close", "ioctl"} |->
        CASE nr \in {"read", "write", "openat", "open", "chdir", "close"} -> {"FILES"}
          [] nr \in {"sendto", "socket"} -> {"NETWORK"}
          [] nr = "execve" -> {"EXEC"}
          [] nr = "ioctl" -> {"SYSTEM_CALLS"}
          [] OTHER -> {"SAFE"}]

\* crate::syscall::lookup's table for the run: the rows above, or the rows of
\* the capability map the run was built with when syscalls_cm holds one
Lookup ==
    IF syscalls_cm = <<>> THEN SyscallTable
    ELSE [s \in DOMAIN syscalls_cm |->
            {syscalls_cm[s][i] : i \in DOMAIN syscalls_cm[s]}]

\* lookup_sysno: the error ("" for Ok) and the capabilities
LookupSysno(nr) ==
    IF nr \in DOMAIN Lookup
    THEN [err |-> "", caps |-> Lookup[nr]]
    ELSE [err |-> "SyscallMissingFromMap", caps |-> {}]

\* a traced syscall: its number (by name) and the arguments the tracer reads:
\* fd is the descriptor argument (dfd for the *at calls), flags the set of the
\* flag bits that are set, cmd the ioctl command, family the socket family
SyscallArgs(nr, fd, flags, path, cmd, family) ==
    [nr |-> nr, fd |-> fd, flags |-> flags, path |-> path, cmd |-> cmd,
     family |-> family]

Syscall(nr, fd, flags, path) == SyscallArgs(nr, fd, flags, path, 0, "Inet")

\* Syscall::CloseRange: fd() and max_fd()
SyscallCloseRange(fd, max_fd) ==
    [nr |-> "close_range", fd |-> fd, max_fd |-> max_fd, flags |-> {}, path |-> <<>>,
     cmd |-> 0, family |-> "Inet"]

\* Syscall::Pipe / Syscall::Pipe2: the flags, and the two descriptors that the
\* kernel writes to the caller's array when the call succeeds
SyscallPipe(nr, flags, pipefd) ==
    [nr |-> nr, fd |-> 0, pipefd |-> pipefd, flags |-> flags, path |-> <<>>,
     cmd |-> 0, family |-> "Inet"]

NoTyped == [kind |-> "None"]

\* AddressFamily::from_i32(family).unwrap_or(AddressFamily::Unspec)
AddressFamilies == {"Unix", "Inet", "Inet6"}
AddressFamily(family) == IF family \in AddressFamilies THEN family ELSE "Unspec"

\* Fd::is_at_working_directory: AT_FDCWD
AtFdcwd == -100

\* resolve_at_syscall taking every dfd for AT_FDCWD
ResolveAtSyscallCwdOnly(state, dfd, local, procfs) ==
    IF IsAbsolute(local) THEN [err |-> "", path |-> local, state |-> state]
    ELSE [err |-> "", path |-> Resolve(state, local), state |-> state]

\* resolve_at_syscall: the error ("" for Ok), the path and the process state
\* after the call (infer_fd records what it reads from procfs)
ResolveAtSyscall(state, dfd, local, procfs) ==
    IF IsAbsolute(local) THEN [err |-> "", path |-> local, state |-> state]
    ELSE IF dfd = AtFdcwd
    THEN [err |-> "", path |-> Resolve(state, local), state |-> state]
    ELSE LET inferred == IF dfd \in DOMAIN state.fds
                         THEN [err |-> "", state |-> state]
                         ELSE InferFd(state, dfd, procfs)
         IN  IF inferred.err # ""
             THEN [err |-> inferred.err, path |-> <<>>, state |-> inferred.state]
             ELSE LET ty == inferred.state.fds[dfd].ty
                  IN  IF ty.kind \in {"Directory", "File"}
                      THEN [err |-> "", path |-> Join(ty.path, local),
                            state |-> inferred.state]
                      ELSE [err |-> "Resolve", path |-> <<>>,
                            state |-> inferred.state]

\* Meta::try_from_syscall for the syscalls of the model that need no process
\* state: the `typed` record. socket's flags argument holds the SOCK_* bits of
\* its type argument.
TypedOf(syscall) ==
    CASE syscall.nr = "chdir" -> [kind |-> "Chdir", path |-> syscall.path]
      [] syscall.nr = "close" -> [kind |-> "Close", fd |-> syscall.fd]
      [] syscall.nr = "close_range" ->
            [kind |-> "CloseRange", fd |-> syscall.fd, max_fd |-> syscall.max_fd]
      [] syscall.nr = "pipe" -> [kind |-> "FdCreate", meta |-> FdMeta({}, TypeFifo)]
      [] syscall.nr = "pipe2" ->
            [kind |-> "FdCreate", meta |-> FdMeta(syscall.flags, TypeFifo)]
      [] syscall.nr = "open" ->
            [kind |-> "FdCreate", meta |-> FdMeta(syscall.flags, TypeFile(syscall.path))]
      [] syscall.nr = "socket" ->
            [kind |-> "FdCreate",
             meta |-> FdMeta(IF "SOCK_CLOEXEC" \in syscall.flags
                             THEN {"O_CLOEXEC"} ELSE {},
                             TypeSocket(AddressFamily(syscall.family), "Stream"))]
      [] syscall.nr = "ioctl" ->
            [kind |-> "Ioctl", cmd |-> syscall.cmd, fd |-> syscall.fd]
      [] syscall.nr \in {"execve", "execveat"} -> [kind |-> "Exec", path |-> syscall.path]
      [] OTHER -> NoTyped

\* Meta { nr, typed }
SyscallMeta(syscall) == [nr |-> syscall.nr, typed |-> TypedOf(syscall)]

\* the syscalls whose arguments try_from_syscall reads from the tracee's memory
ReadsMemory == {"chdir", "open", "openat", "openat2", "execve", "execveat"}

\* Meta::try_from_syscall: the error ("" for Ok), the Meta (<<>> on an error)
\* and the process state after the call
TryFromSyscall(state, syscall, args_ok, procfs) ==
    IF syscall.nr \in ReadsMemory /\ ~args_ok
    THEN [err |-> "Args", meta |-> <<>>, state |-> state]
    ELSE IF syscall.nr \in {"openat", "openat2"}
    THEN LET r == ResolveAtSyscall(state, syscall.fd, syscall.path, procfs)
         IN  IF r.err # "" THEN [err |-> r.err, meta |-> <<>>, state |-> r.state]
             ELSE [err |-> "",
                   meta |-> <<[nr |-> syscall.nr,
                               typed |-> [kind |-> "FdCreate",
                                          meta |-> FdMeta(syscall.flags,
                                                          TypeFile(r.path))]]>>,
                   state |-> r.state]
    ELSE [err |-> "", meta |-> <<SyscallMeta(syscall)>>, state |-> state]

\* ioctl::caps with the arms for Unix sockets and for other sockets swapped
IoctlCapsSwapped(cmd, ty) ==
    CASE ty.kind = "Char" -> [err |-> "", caps |-> {"SAFE"}]
      [] ty.kind \in {"Directory", "File"} -> [err |-> "", caps |-> {"FILES"}]
      [] ty.kind = "Socket" /\ ty.domain = "Unix" -> [err |-> "", caps |-> {"NETWORK"}]
      [] ty.kind \in {"Socket", "SocketInode"} -> [err |-> "", caps |-> {"FILES"}]
      [] OTHER -> [err |-> "Ioctl", caps |-> {}]

\* ioctl::caps: the error ("" for Ok) and the capabilities
IoctlCaps(cmd, ty) ==
    CASE ty.kind = "Char" -> [err |-> "", caps |-> {"SAFE"}]
      [] ty.kind \in {"Directory", "File"} -> [err |-> "", caps |-> {"FILES"}]
      [] ty.kind = "Socket" /\ ty.domain = "Unix" -> [err |-> "", caps |-> {"FILES"}]
      [] ty.kind \in {"Socket", "SocketInode"} -> [err |-> "", caps |-> {"NETWORK"}]
      [] OTHER -> [err |-> "Ioctl", caps |-> {}]

\* the state mutation of Meta::into_capabilities for the typed records other
\* than Ioctl
ApplyTyped(typed, state, sval) ==
    CASE typed.kind = "Chdir" -> SetWorkingDirectory(state, typed.path)
      [] typed.kind = "Close" -> Close(state, typed.fd)
      [] typed.kind = "CloseRange" -> CloseRange(state, typed.fd, typed.max_fd)
      [] typed.kind = "Exec" -> AddExec(state, Exec(typed.path))
      [] typed.kind = "FdCreate" -> InsertFd(state, sval, typed.meta)
      [] OTHER -> state

\* into_capabilities looking the name up before it touches the process state
IntoCapabilitiesLookupFirst(meta, state, sval, procfs) ==
    LET r == LookupSysno(meta.nr)
    IN  IF r.err # "" THEN [err |-> r.err, caps |-> {}, state |-> state]
        ELSE [err |-> "", caps |-> r.caps,
              state |-> ApplyTyped(meta.typed, state, sval)]

\* Meta::into_capabilities: the error ("" for Ok), the capabilities and the
\* process state after the call. For Typed::Ioctl the descriptor's Meta is
\* taken from the table or inferred; ioctl::caps' Ok is returned at once, and
\* every other case runs into lookup_sysno.
IntoCapabilities(meta, state, sval, procfs) ==
    LET typed == meta.typed
        r == LookupSysno(meta.nr)
    IN  IF typed.kind = "Ioctl"
        THEN LET st == IF typed.fd \in DOMAIN state.fds THEN state
                       ELSE InferFd(state, typed.fd, procfs).state
                 c == IF typed.fd \in DOMAIN st.fds
                      THEN IoctlCaps(typed.cmd, st.fds[typed.fd].ty)
                      ELSE [err |-> "Ioctl", caps |-> {}]
             IN  IF c.err = "" THEN [err |-> "", caps |-> c.caps, state |-> st]
                 ELSE [err |-> r.err, caps |-> r.caps, state |-> st]
        ELSE [err |-> r.err, caps |-> r.caps,
              state |-> ApplyTyped(typed, state, sval)]

-----------------------------------------------------------------------------
(* src/src/runtime/mod.rs *)

\* frame names for which ToFunction::to_function_with_caps returns Err (a Rust
\* symbol whose demangled form parse_rust_function_name rejects)
MalformedNames == {"<bad>"}

\* what libunwind yields for one syscall exit: whether PTraceState::new and
\* Cursor::remote succeed, the names of the named frames the walk collects
\* (innermost first), and whether the walk ends by a failed read of the IP
\* register (return Ok) instead of by the end of the stack
Unwind(setup_ok, names, ip_fail) ==
    [setup_ok |-> setup_ok, names |-> names, ip_fail |-> ip_fail]

\* the Function built for a frame: to_function_with_caps, then insert_syscall
\* for the Direct frame when include_syscalls is set
FrameFunction(name, caps, ty, nr, inc_syscalls) ==
    [name |-> name,
     capabilities |-> CapMap(caps, ty),
     syscalls |-> IF inc_syscalls /\ ty = "Direct" THEN {nr} ELSE {}]

NoIdx == -1

RECURSIVE Attribute(_, _, _, _, _, _, _)
\* the loop `for name in names.into_iter()` from frame i on; child_idx is
\* NoIdx for None
Attribute(state, names, i, child_idx, caps, nr, inc_syscalls) ==
    IF i > Len(names) THEN state
    ELSE IF names[i] \in MalformedNames
    THEN Attribute(state, names, i + 1, child_idx, caps, nr, inc_syscalls)
    ELSE LET ty == IF child_idx = NoIdx THEN "Direct" ELSE "Transitive"
             func == FrameFunction(names[i], caps, ty, nr, inc_syscalls)
             r == Upsert(state.functions, names[i], func)
             upserted == [state EXCEPT !.functions = r.map]
             linked == IF child_idx # NoIdx
                       THEN AddStateEdge(upserted, r.idx, child_idx)
                       ELSE upserted
         IN  Attribute(linked, names, i + 1, r.idx, caps, nr, inc_syscalls)

HasStart(names) == \E i \in DOMAIN names : names[i] = "_start"

\* the stack walk without the is_waiting_for_start test before the loop
UnwindAndAttributeAlways(state, caps, nr, inc_syscalls, unwind) ==
    IF ~unwind.setup_ok THEN [err |-> "Unwind", state |-> state]
    ELSE LET seen == IF HasStart(unwind.names) THEN StartSeen(state) ELSE state
         IN  IF unwind.ip_fail THEN [err |-> "", state |-> seen]
             ELSE [err |-> "",
                   state |-> Attribute(seen, unwind.names, 1, NoIdx, caps, nr,
                                       inc_syscalls)]

\* handle_syscall_exit from the stack walk on, for a process state whose
\* capabilities have been extended
UnwindAndAttribute(state, caps, nr, inc_syscalls, unwind) ==
    IF ~unwind.setup_ok THEN [err |-> "Unwind", state |-> state]
    ELSE LET seen == IF HasStart(unwind.names) THEN StartSeen(state) ELSE state
         IN  IF unwind.ip_fail THEN [err |-> "", state |-> seen]
             ELSE IF seen.waiting_for_start THEN [err |-> "", state |-> seen]
             ELSE [err |-> "",
                   state |-> Attribute(seen, unwind.names, 1, NoIdx, caps, nr,
                                       inc_syscalls)]

SetState(map, pid, state) == [map EXCEPT !.active[pid] = state]

\* a handle_syscall_exit that attributes the capabilities to the frames
\* without the extend_caps before the stack walk
HandleSyscallExitNoExtend(map, inc_syscalls, pid, meta, sval, unwind, procfs) ==
    IF meta = <<>> THEN [err |-> "SyscallMetaMissing", caps |-> {}, map |-> map]
    ELSE IF pid \notin DOMAIN map.active
    THEN [err |-> "ProcessUnknown", caps |-> {}, map |-> map]
    ELSE LET r == IntoCapabilities(meta[1], map.active[pid], sval, procfs)
         IN  IF r.err # ""
             THEN [err |-> r.err, caps |-> {}, map |-> SetState(map, pid, r.state)]
             ELSE LET u == UnwindAndAttribute(r.state, r.caps,
                                              meta[1].nr, inc_syscalls, unwind)
                  IN  [err |-> u.err, caps |-> r.caps,
                       map |-> SetState(map, pid, u.state)]

\* GlobalState::handle_syscall_exit; meta is the event's userdata (<<>> for
\* None); yields the error ("" for Ok), the capabilities resolved, and the
\* process map after the call
HandleSyscallExit(map, inc_syscalls, pid, meta, sval, unwind, procfs) ==
    IF meta = <<>> THEN [err |-> "SyscallMetaMissing", caps |-> {}, map |-> map]
    ELSE IF pid \notin DOMAIN map.active
    THEN [err |-> "ProcessUnknown", caps |-> {}, map |-> map]
    ELSE LET r == IntoCapabilities(meta[1], map.active[pid], sval, procfs)
         IN  IF r.err # ""
             THEN [err |-> r.err, caps |-> {}, map |-> SetState(map, pid, r.state)]
             ELSE LET u == UnwindAndAttribute(ExtendCaps(r.state, r.caps), r.caps,
                                              meta[1].nr, inc_syscalls, unwind)
                  IN  [err |-> u.err, caps |-> r.caps,
                       map |-> SetState(map, pid, u.state)]

\* a handle_syscall_entry that adopts a process it has no record of
HandleSyscallEntryAdopt(map, pid, syscall, args_ok, procfs) ==
    IF pid \notin DOMAIN map.active
    THEN [err |-> "ProcessUnknown", userdata |-> <<>>,
          map |-> [map EXCEPT !.active =
                    [p \in DOMAIN map.active \cup {pid} |->
                        IF p = pid
                        THEN InitState(pid, <<>>, <<"/">>, map.include_before_start)
                        ELSE map.active[p]]]]
    ELSE LET r == TryFromSyscall(map.active[pid], syscall, args_ok, procfs)
         IN  [err |-> r.err, userdata |-> r.meta,
              map |-> SetState(map, pid, r.state)]

\* GlobalState::handle_syscall_entry; args_ok says whether the tracee's
\* memory could be read for the arguments; yields the error ("" for Ok), the
\* userdata set on the event (<<>> for none) and the process map after the
\* call
HandleSyscallEntry(map, pid, syscall, args_ok, procfs) ==
    IF pid \notin DOMAIN map.active
    THEN [err |-> "ProcessUnknown", userdata |-> <<>>, map |-> map]
    ELSE LET r == TryFromSyscall(map.active[pid], syscall, args_ok, procfs)
         IN  [err |-> r.err, userdata |-> r.meta,
              map |-> SetState(map, pid, r.state)]

-----------------------------------------------------------------------------
(* Values the variables of the other components hold while one component runs *)

NoLast == [op |-> "none"]

IdleMap == [active |-> <<>>, inactive |-> <<>>,
            include_before_start |-> FALSE, init_pid |-> 0]

TracerIdle ==
    /\ processes = IdleMap
    /\ include_syscalls = FALSE
    /\ userdata = <<>>
    /\ nevents = 0

BubbleIdle ==
    /\ functions = EmptyFunctionMap
    /\ call_graph = <<>>
    /\ before = <<>>
    /\ pc = "idle"
    /\ edge_idx = 0
    /\ changed = FALSE

ReportIdle ==
    /\ report_function = Function("", NoCaps)
    /\ process = [path |-> <<>>, capabilities |-> {}, functions |-> <<>>, edges |-> <<>>]
    /\ serialized = [written |-> FALSE]

\* no library function has been called
NoCall == [fn |-> ""]

CallIdle ==
    /\ argument = NoCall
    /\ returned = NoCall

SeccompIdle ==
    /\ syscalls_cm = <<>>
    /\ cap_map = <<>>
    /\ requested = {}
    /\ policy = [default_action |-> [kind |-> ""], architectures |-> <<>>, syscalls |-> <<>>]
    /\ output = [written |-> FALSE, err |-> ""]

-----------------------------------------------------------------------------
(* CallGraph::bubble_transitive_capabilities on enumerated graphs *)

Names == <<"a", "b", "c", "d", "e">>

\* the FunctionMap after upserting functions named Names[1..n] with the given
\* capability maps
MapOf(capmaps) ==
    [functions |-> [i \in DOMAIN capmaps |-> Function(Names[i], capmaps[i])],
     ids |-> [n \in {Names[i] : i \in DOMAIN capmaps} |->
                 (CHOOSE i \in DOMAIN capmaps : Names[i] = n) - 1]]

\* capability maps the functions of an enumerated graph start with
InitCapMaps ==
    {NoCaps,
     CapMap({"FILES"}, "Direct"),
     ("FILES" :> "Unspecified") @@ ("NETWORK" :> "Transitive")}

Injective(s) == \A i, j \in DOMAIN s : s[i] = s[j] => i = j

\* edge lists (in all_edges() order) over the function indices 0 .. n-1
EdgeSeqs(n, maxlen) ==
    {s \in UNION {[1..k -> (0..(n - 1)) \X (0..(n - 1))] : k \in 0..maxlen} :
        Injective(s)}

\* tests::bubble of graph.rs: a->b, b->d, a->c, c->e, d holds
\* ArbitraryExecution Direct
TestFunctions ==
    MapOf([i \in 1..5 |->
            IF i = 4 THEN CapMap({"ARBITRARY_EXECUTION"}, "Direct") ELSE NoCaps])

TestEdges == {<<0, 1>>, <<1, 3>>, <<0, 2>>, <<2, 4>>}

TestEdgeSeqs == {s \in [1..4 -> TestEdges] : Injective(s)}

BubbleStart(fm, g) ==
    /\ functions = fm
    /\ call_graph = g
    /\ before = fm.functions
    /\ pc = "while"
    /\ edge_idx = 0
    /\ changed = TRUE
    /\ last = NoLast
    /\ TracerIdle
    /\ ReportIdle
    /\ SeccompIdle
    /\ CallIdle

BubbleInit ==
    \/ \E capmaps \in [1..NumFns -> InitCapMaps], g \in EdgeSeqs(NumFns, MaxEdges) :
          BubbleStart(MapOf(capmaps), g)
    \/ \E g \in TestEdgeSeqs : BubbleStart(TestFunctions, g)

\* `while changed { changed = false; for ..`
BubbleWhile ==
    /\ pc = "while"
    /\ IF changed
       THEN /\ changed' = FALSE
            /\ edge_idx' = 1
            /\ pc' = "for"
       ELSE /\ pc' = "done"
            /\ UNCHANGED <<changed, edge_idx>>
    /\ UNCHANGED <<functions, call_graph, before, last>>
    /\ UNCHANGED <<tracerVars, reportVars, seccompVars, callVars>>

\* one iteration of `for (caller, callee, _) in self.0.all_edges()`
BubbleFor ==
    /\ pc = "for"
    /\ edge_idx <= Len(call_graph)
    /\ functions' = [functions EXCEPT
                        !.functions = BubbleEdge(functions.functions, call_graph[edge_idx])]
    /\ changed' = (changed \/ EdgeInserts(functions.functions, call_graph[edge_idx]))
    /\ edge_idx' = edge_idx + 1
    /\ UNCHANGED <<call_graph, before, pc, last>>
    /\ UNCHANGED <<tracerVars, reportVars, seccompVars, callVars>>

\* the `for` loop is exhausted
BubbleForEnd ==
    /\ pc = "for"
    /\ edge_idx > Len(call_graph)
    /\ pc' = "while"
    /\ UNCHANGED <<functions, call_graph, before, edge_idx, changed, last>>
    /\ UNCHANGED <<tracerVars, reportVars, seccompVars, callVars>>

BubbleNext == BubbleWhile \/ BubbleFor \/ BubbleForEnd

SpecBubble == BubbleInit /\ [][BubbleNext]_vars

\* capability maps of the graphs on which termination is checked
FairCapMaps == {NoCaps, ("FILES" :> "Unspecified") @@ ("NETWORK" :> "Transitive")}

BubbleFairInit ==
    \/ \E capmaps \in [1..NumFns -> FairCapMaps], g \in EdgeSeqs(NumFns, MaxEdges) :
          BubbleStart(MapOf(capmaps), g)
    \/ \E g \in TestEdgeSeqs : BubbleStart(TestFunctions, g)

\* the loop is sequential code: it always takes its next step
SpecBubbleFair == BubbleFairInit /\ [][BubbleNext]_vars /\ WF_vars(BubbleNext)

-----------------------------------------------------------------------------
(* Reachability in the call graph, defined on the edge set alone *)

RECURSIVE ReachIter(_, _, _)
ReachIter(E, S, k) ==
    IF k = 0 THEN S
    ELSE ReachIter(E, S \cup {e[2] : e \in {x \in E : x[1] \in S}}, k - 1)

\* the functions reachable from f along one or more caller->callee edges
Reachable(E, f) ==
    ReachIter(E, {e[2] : e \in {x \in E : x[1] = f}}, Cardinality(E))

\* the capabilities f holds after bubble according to the closure
ClosureKeys(fs, E, f) ==
    Keys(fs[f + 1]) \cup UNION {Keys(fs[g + 1]) : g \in Reachable(E, f)}

\* C1: once bubble has returned, every function holds exactly the capabilities
\* it held before or that a function reachable from it held before, every added
\* entry is Transitive, every earlier entry is as it was, and on the graph of
\* tests::bubble a and b hold ArbitraryExecution Transitive while c and e hold
\* nothing; the edge order does not enter the result.
C1_BubbleClosure ==
    pc = "done" =>
        /\ Len(functions.functions) = Len(before)
        /\ \A i \in DOMAIN before :
              LET caps == functions.functions[i].capabilities
                  old == before[i].capabilities
              IN  /\ DOMAIN caps = ClosureKeys(before, EdgeSet(call_graph), i - 1)
                  /\ \A c \in DOMAIN caps :
                        caps[c] = IF c \in DOMAIN old THEN old[c] ELSE "Transitive"
        /\ (before = TestFunctions.functions /\ EdgeSet(call_graph) = TestEdges) =>
              /\ functions.functions[1].capabilities =
                    CapMap({"ARBITRARY_EXECUTION"}, "Transitive")
              /\ functions.functions[2].capabilities =
                    CapMap({"ARBITRARY_EXECUTION"}, "Transitive")
              /\ functions.functions[3].capabilities = NoCaps
              /\ functions.functions[5].capabilities = NoCaps

\* bubble returned on a chain of two edges visited caller-side first, so that
\* the capability needed a second pass to reach the top
C1_Witness ==
    /\ pc = "done"
    /\ Len(call_graph) = 2
    /\ call_graph[1][2] = call_graph[2][1]
    /\ call_graph[1][1] # call_graph[1][2]
    /\ call_graph[2][2] \notin {call_graph[1][1], call_graph[1][2]}
    /\ Keys(before[call_graph[1][1] + 1]) = {}
    /\ Keys(before[call_graph[1][2] + 1]) = {}
    /\ "NETWORK" \in Keys(functions.functions[call_graph[1][1] + 1])

\* C2: at every point of bubble, every capability entry a function had before
\* the call is still there with a type at least as high (Unspecified <
\* Transitive < Direct); a Direct entry is still Direct.
C2_BubbleMonotone ==
    pc \in {"while", "for", "done"} =>
        \A i \in DOMAIN before :
            \A c \in Keys(before[i]) :
                /\ c \in Keys(functions.functions[i])
                /\ TypeLeq(before[i].capabilities[c],
                           functions.functions[i].capabilities[c])
                /\ before[i].capabilities[c] = "Direct" =>
                      functions.functions[i].capabilities[c] = "Direct"

\* bubble returned on a graph where a caller holding FILES Direct calls a
\* function holding FILES too
C2_Witness ==
    /\ pc = "done"
    /\ \E i \in DOMAIN call_graph :
          LET caller == call_graph[i][1] + 1
              callee == call_graph[i][2] + 1
          IN  /\ caller # callee
              /\ "FILES" \in Keys(before[caller]) /\ before[caller].capabilities["FILES"] = "Direct"
              /\ "FILES" \in Keys(before[callee])
              /\ "NETWORK" \in Keys(functions.functions[caller])
              /\ "NETWORK" \notin Keys(before[caller])

\* C3: bubble terminates: the loop reaches a pass that inserts nothing and
\* returns.
C3_BubbleTerminates == <>(pc = "done")

\* bubble returned on a graph with a cycle through a function holding a
\* capability, or with a self-loop on one
C3_Witness ==
    /\ pc = "done"
    /\ \E i, j \in DOMAIN call_graph :
          /\ call_graph[i][1] = call_graph[j][2]
          /\ call_graph[i][2] = call_graph[j][1]
          /\ Keys(before[call_graph[i][1] + 1]) # {}

-----------------------------------------------------------------------------
(* FunctionMap under arbitrary sequences of upserts *)

\* the mangled names upserted
FmNames == {Names[i] : i \in 1..NumFns}

FmInit ==
    /\ functions = EmptyFunctionMap
    /\ call_graph = <<>>
    /\ before = <<>>
    /\ pc = "idle"
    /\ edge_idx = 0
    /\ changed = FALSE
    /\ last = NoLast
    /\ TracerIdle
    /\ ReportIdle
    /\ SeccompIdle
    /\ CallIdle

\* functions.upsert(mangled, function)
FmUpsert ==
    \E mangled \in FmNames, capmap \in InitCapMaps :
        LET function == Function(mangled, capmap)
            r == Upsert(functions, mangled, function)
        IN  /\ functions' = r.map
            /\ last' = [op |-> "upsert", mangled |-> mangled, function |-> function,
                        idx |-> r.idx]
            /\ UNCHANGED <<call_graph, before, pc, edge_idx, changed>>
            /\ UNCHANGED <<tracerVars, reportVars, seccompVars, callVars>>

FmNext == FmUpsert

SpecFm == FmInit /\ [][FmNext]_vars

\* C9: an upsert of a name already present returns the index the name has,
\* leaves the array length and every stored Function as they were; an upsert of
\* a new name appends exactly that function at index = previous length; no
\* upsert changes the index of a name or a stored element.
C9_UpsertStable ==
    [][ /\ \A n \in DOMAIN functions.ids :
              n \in DOMAIN functions'.ids /\ functions'.ids[n] = functions.ids[n]
        /\ \A i \in DOMAIN functions.functions :
              i \in DOMAIN functions'.functions
              /\ functions'.functions[i] = functions.functions[i]
        /\ last'.op = "upsert" =>
              IF last'.mangled \in DOMAIN functions.ids
              THEN /\ last'.idx = functions.ids[last'.mangled]
                   /\ Len(functions'.functions) = Len(functions.functions)
                   /\ DOMAIN functions'.ids = DOMAIN functions.ids
              ELSE /\ last'.idx = Len(functions.functions)
                   /\ Len(functions'.functions) = Len(functions.functions) + 1
                   /\ functions'.functions[Len(functions.functions) + 1] = last'.function
                   /\ DOMAIN functions'.ids = DOMAIN functions.ids \cup {last'.mangled}
                   /\ functions'.ids[last'.mangled] = last'.idx
      ]_vars

\* the first name was upserted again, with another Function value, after
\* other names had been added
C9_Witness ==
    /\ last.op = "upsert"
    /\ Len(functions.functions) >= 2
    /\ last.idx = 0
    /\ last.function # functions.functions[1]
    /\ last.function.name = functions.functions[1].name

\* C10: the name->index map is a bijection between the recorded names and the
\* positions 0 .. len-1 of the function array.
C10_IdsBijection ==
    pc = "idle" =>
        /\ \A n \in DOMAIN functions.ids : ValidIdx(functions, functions.ids[n])
        /\ \A n, m \in DOMAIN functions.ids :
              functions.ids[n] = functions.ids[m] => n = m
        /\ \A i \in 0..(Len(functions.functions) - 1) :
              Cardinality({n \in DOMAIN functions.ids : functions.ids[n] = i}) = 1

\* every name has been upserted and one of them again
C10_Witness ==
    /\ last.op = "upsert"
    /\ Len(functions.functions) = NumFns
    /\ last.idx < NumFns - 1

-----------------------------------------------------------------------------
(* The dynamic tracer: GlobalState::handle_event over the tracer's events *)

\* events handled in one run
MaxEvents == 5
\* pids of the traced process tree
MaxPids == 2

Pids == 1..MaxPids
InitPid == 1
Fds == {3, 4}

InitWd == <<"/", "home">>
InitExec == Exec(<<"/", "bin", "cmd">>)

\* no syscall in flight
NoSyscall == [in_syscall |-> FALSE, nr |-> "", meta |-> <<>>]

TracerInit(ibs, inc_syscalls) ==
    /\ processes = MapNew(InitPid, InitExec, InitWd, ibs)
    /\ include_syscalls = inc_syscalls
    /\ userdata = [p \in Pids |-> NoSyscall]
    /\ nevents = 0
    /\ last = NoLast
    /\ BubbleIdle
    /\ ReportIdle
    /\ SeccompIdle
    /\ CallIdle

\* the values a successful syscall returns: a new descriptor for the calls
\* that create one, 0 for the others of the model
SuccessValues(nr) ==
    IF nr \in {"open", "openat", "openat2", "socket"} THEN Fds ELSE {0}

\* the stack of an exit that handle_event drops unread
NoUnwind == Unwind(FALSE, <<>>, FALSE)

\* Event::Clone: the kernel gives the child a pid no traced process has
EvClone ==
    /\ nevents < MaxEvents
    /\ \E parent \in Pids, child \in Pids \ DOMAIN processes.active :
          LET r == Spawn(processes, parent, child)
          IN  /\ processes' = r.map
              /\ userdata' = [userdata EXCEPT ![child] = NoSyscall]
              /\ last' = [op |-> "Clone", pid |-> parent, child |-> child, err |-> r.err]
    /\ nevents' = nevents + 1
    /\ UNCHANGED include_syscalls
    /\ UNCHANGED <<bubbleVars, reportVars, seccompVars, callVars>>

\* Event::Exited
EvExited ==
    /\ nevents < MaxEvents
    /\ \E pid \in Pids :
          /\ processes' = MapExit(processes, pid)
          /\ userdata' = [userdata EXCEPT ![pid] = NoSyscall]
          /\ last' = [op |-> "Exited", pid |-> pid, err |-> ""]
    /\ nevents' = nevents + 1
    /\ UNCHANGED include_syscalls
    /\ UNCHANGED <<bubbleVars, reportVars, seccompVars, callVars>>

\* what procfs can say of a descriptor the tracer has no record of
ProcfsOutcomes ==
    {ProcfsErr}
    \cup {ProcfsOk(FdMeta({}, ty)) :
            ty \in {TypeDirectory(<<"/", "d">>), TypeFile(<<"/", "f">>),
                    TypeBlock(<<"/", "dev", "sda">>), TypeChar(<<"/", "dev", "tty">>),
                    TypeFifo, TypeUnknown, TypeSocketInode(7)}}

\* whether handle_syscall_entry reads procfs for the syscall: resolve_at_syscall
\* reaches infer_fd
EntryReadsProcfs(state, syscall, args_ok) ==
    /\ syscall.nr \in {"openat", "openat2"}
    /\ args_ok
    /\ ~IsAbsolute(syscall.path)
    /\ syscall.fd # AtFdcwd
    /\ syscall.fd \notin DOMAIN state.fds

\* whether handle_syscall_exit reads procfs for the Meta: the Ioctl arm of
\* into_capabilities reaches infer_fd
ExitReadsProcfs(state, meta) ==
    /\ meta # <<>>
    /\ meta[1].typed.kind = "Ioctl"
    /\ meta[1].typed.fd \notin DOMAIN state.fds

\* Event::SyscallEntry of a process of the map for one of the given syscalls
EvSyscallEntry(syscalls) ==
    /\ nevents < MaxEvents
    /\ \E pid \in DOMAIN processes.active, syscall \in syscalls, args_ok \in BOOLEAN :
          \E procfs \in (IF EntryReadsProcfs(processes.active[pid], syscall, args_ok)
                         THEN ProcfsOutcomes ELSE {ProcfsErr}) :
          LET r == HandleSyscallEntry(processes, pid, syscall, args_ok, procfs)
          IN  /\ ~userdata[pid].in_syscall
              /\ args_ok \/ syscall.nr \in ReadsMemory
              /\ processes' = r.map
              /\ userdata' = [userdata EXCEPT ![pid] =
                    [in_syscall |-> TRUE, nr |-> syscall.nr, meta |-> r.userdata]]
              /\ last' = [op |-> "SyscallEntry", pid |-> pid, nr |-> syscall.nr,
                          err |-> r.err, syscall |-> syscall]
    /\ nevents' = nevents + 1
    /\ UNCHANGED include_syscalls
    /\ UNCHANGED <<bubbleVars, reportVars, seccompVars, callVars>>

\* Event::SyscallExit of the syscall in flight: an error exit is dropped by
\* handle_event, a successful one goes to handle_syscall_exit
EvSyscallExit(unwinds) ==
    /\ nevents < MaxEvents
    /\ \E pid \in Pids, is_error \in BOOLEAN :
          /\ userdata[pid].in_syscall
          /\ \E sval \in SuccessValues(userdata[pid].nr),
                unwind \in (IF is_error THEN {NoUnwind} ELSE unwinds),
                procfs \in (IF /\ ~is_error
                               /\ pid \in DOMAIN processes.active
                               /\ ExitReadsProcfs(processes.active[pid],
                                                  userdata[pid].meta)
                            THEN ProcfsOutcomes ELSE {ProcfsErr}) :
                LET r == HandleSyscallExit(processes, include_syscalls, pid,
                                           userdata[pid].meta, sval, unwind, procfs)
                IN  /\ processes' = IF is_error THEN processes ELSE r.map
                    /\ userdata' = [userdata EXCEPT ![pid] = NoSyscall]
                    /\ last' = [op |-> "SyscallExit", pid |-> pid,
                                nr |-> userdata[pid].nr,
                                is_error |-> is_error,
                                err |-> IF is_error THEN "" ELSE r.err,
                                caps |-> IF is_error THEN {} ELSE r.caps,
                                sval |-> IF is_error THEN -1 ELSE sval,
                                unwind |-> unwind]
    /\ nevents' = nevents + 1
    /\ UNCHANGED include_syscalls
    /\ UNCHANGED <<bubbleVars, reportVars, seccompVars, callVars>>

\* the syscalls and stacks of the runs that exercise the process table
ProcSyscalls ==
    {Syscall("read", 0, {}, <<>>),
     Syscall("nosuch", 0, {}, <<>>),
     Syscall("open", 0, {}, <<"/", "f">>),
     Syscall("open", 0, {"O_CLOEXEC"}, <<"/", "f">>),
     Syscall("socket", 0, {"SOCK_STREAM"}, <<>>),
     Syscall("socket", 0, {"SOCK_STREAM", "SOCK_CLOEXEC"}, <<>>),
     Syscall("execve", 0, {}, <<"/", "bin", "x">>),
     Syscall("chdir", 0, {}, <<"/", "tmp">>)}
    \cup {Syscall("close", fd, {}, <<>>) : fd \in Fds}

ProcUnwinds == {Unwind(TRUE, <<>>, FALSE), Unwind(TRUE, <<"f", "_start">>, FALSE)}

Init == \E ibs \in BOOLEAN : TracerInit(ibs, FALSE)

Next ==
    \/ EvClone
    \/ EvExited
    \/ EvSyscallEntry(ProcSyscalls)
    \/ EvSyscallExit(ProcUnwinds)

Spec == Init /\ [][Next]_vars

\* the syscalls and stacks of the runs that exercise the attribution
AttrSyscalls ==
    {Syscall("read", 0, {}, <<>>),
     Syscall("sendto", 0, {}, <<>>),
     Syscall("nosuch", 0, {}, <<>>)}

AttrUnwinds ==
    {Unwind(FALSE, <<>>, FALSE),
     Unwind(TRUE, <<>>, FALSE),
     Unwind(TRUE, <<"f">>, FALSE),
     Unwind(TRUE, <<"f", "_start">>, FALSE),
     Unwind(TRUE, <<"g", "f", "_start">>, FALSE),
     Unwind(TRUE, <<"f", "g", "_start">>, FALSE),
     Unwind(TRUE, <<"f", "f", "_start">>, FALSE),
     Unwind(TRUE, <<"<bad>", "f", "_start">>, FALSE),
     Unwind(TRUE, <<"g">>, TRUE),
     Unwind(TRUE, <<"g", "_start">>, TRUE)}

AttrInit == \E ibs \in BOOLEAN, inc_syscalls \in BOOLEAN : TracerInit(ibs, inc_syscalls)

AttrNext ==
    \/ EvClone
    \/ EvExited
    \/ EvSyscallEntry(AttrSyscalls)
    \/ EvSyscallExit(AttrUnwinds)

SpecAttr == AttrInit /\ [][AttrNext]_vars

-----------------------------------------------------------------------------
(* Properties of the tracer *)

\* the last event was a successful syscall exit that handle_syscall_exit
\* handled without error for a process still in the map
ExitHandled ==
    /\ last.op = "SyscallExit"
    /\ ~last.is_error
    /\ last.err = ""
    /\ last.pid \in DOMAIN processes.active

\* the stack walk of the last exit ran to the end of the stack
WalkCompleted == last.unwind.setup_ok /\ ~last.unwind.ip_fail

WellFormed(names) == \A i \in DOMAIN names : names[i] \notin MalformedNames

\* C4: after a successful syscall exit handled for a process that is not
\* waiting for start, whose walk collected the named frames n1 .. nk, the
\* function of n1 holds every capability of the syscall as Direct and the
\* function of each of n2 .. nk holds it as Transitive or Direct.
C4_FramesHoldCaps ==
    (ExitHandled /\ WalkCompleted /\ WellFormed(last.unwind.names)
        /\ ~processes.active[last.pid].waiting_for_start) =>
        LET fm == processes.active[last.pid].functions
            names == last.unwind.names
        IN  \A i \in DOMAIN names :
              /\ names[i] \in DOMAIN fm.ids
              /\ \A c \in last.caps :
                    LET caps == Get(fm, fm.ids[names[i]]).capabilities
                    IN  /\ c \in DOMAIN caps
                        /\ i = 1 => caps[c] = "Direct"
                        /\ i > 1 => TypeLeq("Transitive", caps[c])

\* C5: a Clone of an active parent gives the child exactly the parent's
\* descriptors whose flags lack O_CLOEXEC, with the parent's metadata, and the
\* parent's working directory.
C5_CloneInherits ==
    [][ (last'.op = "Clone" /\ last'.err = "") =>
            LET parent == processes.active[last'.pid]
                child == processes'.active[last'.child]
            IN  /\ DOMAIN child.fds =
                      {fd \in DOMAIN parent.fds : "O_CLOEXEC" \notin parent.fds[fd].flags}
                /\ \A fd \in DOMAIN child.fds : child.fds[fd] = parent.fds[fd]
                /\ child.wd = parent.wd
      ]_vars

\* the parent held 3: File without O_CLOEXEC and 4: Socket with O_CLOEXEC
\* when it cloned
C5_Witness ==
    /\ last.op = "Clone" /\ last.err = ""
    /\ LET parent == processes.active[last.pid]
           child == processes.active[last.child]
       IN  /\ DOMAIN parent.fds = {3, 4}
           /\ parent.fds[3] = FdMeta({}, TypeFile(<<"/", "f">>))
           /\ parent.fds[4] = FdMeta({"O_CLOEXEC"}, TypeSocket("Inet", "Stream"))
           /\ DOMAIN child.fds = {3}

\* C6: after a successful execve exit is handled for a process, its FD table
\* holds no entry whose flags include O_CLOEXEC.
C6_ExecDropsCloexec ==
    (ExitHandled /\ last.nr = "execve") =>
        \A fd \in DOMAIN processes.active[last.pid].fds :
            "O_CLOEXEC" \notin processes.active[last.pid].fds[fd].flags

\* a process is waiting exactly as long as nothing is attributed to it, and
\* never waits when include_before_start is set
WaitingMeansEmpty ==
    \A p \in DOMAIN processes.active :
        LET st == processes.active[p]
        IN  /\ processes.include_before_start => ~st.waiting_for_start
            /\ st.waiting_for_start =>
                  /\ st.functions = EmptyFunctionMap
                  /\ st.call_graph = <<>>

\* what one event does to waiting_for_start and to the capability set
WaitingStep ==
    /\ \A p \in DOMAIN processes.active \cap DOMAIN processes'.active :
          LET st == processes.active[p]
              st2 == processes'.active[p]
              exit == last'.op = "SyscallExit" /\ last'.pid = p /\ ~last'.is_error
          IN  /\ ~st.waiting_for_start => ~st2.waiting_for_start
              /\ (st.waiting_for_start /\ ~st2.waiting_for_start) =>
                    exit /\ HasStart(last'.unwind.names)
              /\ (exit /\ last'.err = "" /\ HasStart(last'.unwind.names)) =>
                    ~st2.waiting_for_start
              /\ (exit /\ last'.err \in {"", "Unwind"}) =>
                    st2.caps = st.caps \cup last'.caps
    /\ (last'.op = "Clone" /\ last'.err = "") =>
          processes'.active[last'.child].waiting_for_start
            = ~processes.include_before_start

\* every well-formed frame the walk of the last exit collected has a function
Attributed ==
    \A i \in DOMAIN last.unwind.names :
        last.unwind.names[i] \notin MalformedNames =>
            last.unwind.names[i] \in DOMAIN processes.active[last.pid].functions.ids

C8_ExitKeepsInit ==
    /\ [](/\ processes.init_pid \in DOMAIN processes.active
          /\ IntoReport(processes, TRUE).err = "")
    /\ [][ last'.op = "Exited" =>
             IF last'.pid # processes.init_pid /\ last'.pid \in DOMAIN processes.active
             THEN /\ DOMAIN processes'.active = DOMAIN processes.active \ {last'.pid}
                  /\ \A p \in DOMAIN processes'.active :
                        processes'.active[p] = processes.active[p]
                  /\ processes'.inactive =
                        Append(processes.inactive,
                               <<last'.pid, processes.active[last'.pid]>>)
             ELSE processes' = processes
       ]_vars

\* a child that had opened a descriptor exited, then the init pid exited
C8_Witness ==
    /\ last.op = "Exited" /\ last.pid = InitPid
    /\ Len(processes.inactive) = 1
    /\ processes.inactive[1][1] # InitPid
    /\ DOMAIN processes.inactive[1][2].fds # {}
    /\ InitPid \in DOMAIN processes.active

-----------------------------------------------------------------------------
(* Function::insert_capability on its own *)

InsCaps == {"SAFE", "FILES", "NETWORK"}

\* every capability map over a subset of InsCaps
InsCapMaps ==
    UNION {[d -> CapabilityType] : d \in SUBSET InsCaps}

InsInit ==
    /\ \E caps \in InsCapMaps : report_function = Function("f", caps)
    /\ process = [path |-> <<>>, capabilities |-> {}, functions |-> <<>>, edges |-> <<>>]
    /\ serialized = [written |-> FALSE]
    /\ SeccompIdle
    /\ CallIdle
    /\ TracerIdle
    /\ BubbleIdle
    /\ last = NoLast

InsInsert ==
    \E capability \in InsCaps, ty \in CapabilityType :
        /\ report_function' = InsertCapability(report_function, capability, ty)
        /\ last' = [op |-> "insert_capability", capability |-> capability, ty |-> ty,
                    before |-> report_function.capabilities]
        /\ UNCHANGED <<process, serialized>>
        /\ UNCHANGED <<bubbleVars, tracerVars, seccompVars, callVars>>

InsNext == InsInsert

SpecInsert == InsInit /\ [][InsNext]_vars

\* the severity of a capability type: Unspecified < Transitive < Direct
Severity(t) ==
    CASE t = "Unspecified" -> 0
      [] t = "Transitive" -> 1
      [] t = "Direct" -> 2

\* one insert_capability step: the entry of the capability is the more severe
\* of its previous type and ty, every other entry is as before
InsertStep ==
    last'.op = "insert_capability" =>
        LET old == report_function.capabilities
            new == report_function'.capabilities
            c == last'.capability
        IN  /\ DOMAIN new = DOMAIN old \cup {c}
            /\ \A d \in DOMAIN old \ {c} : new[d] = old[d]
            /\ new[c] \in {last'.ty} \cup (IF c \in DOMAIN old THEN {old[c]} ELSE {})
            /\ Severity(new[c]) >= Severity(last'.ty)
            /\ c \in DOMAIN old => Severity(new[c]) >= Severity(old[c])
            /\ report_function'.name = report_function.name
            /\ report_function'.syscalls = report_function.syscalls

\* from the current function, two insertions commute and a repeated
\* insertion changes nothing
InsertOrderFree ==
    \A c1 \in InsCaps, c2 \in InsCaps, t1 \in CapabilityType, t2 \in CapabilityType :
        LET f1 == InsertCapability(report_function, c1, t1)
        IN  /\ InsertCapability(f1, c2, t2)
                = InsertCapability(InsertCapability(report_function, c2, t2), c1, t1)
            /\ InsertCapability(f1, c1, t1) = f1

\* C11: insert_capability(cap, ty) leaves one entry for cap, of type the
\* maximum of the previous type and ty in the order Unspecified < Transitive
\* < Direct, and no other entry changes; insertions commute and are
\* idempotent.
C11_InsertKeepsMax ==
    /\ [][InsertStep]_vars
    /\ [](InsertOrderFree)

\* Transitive was inserted over Direct (numerically the larger code) and
\* Direct stayed
C11_Witness ==
    /\ last.op = "insert_capability"
    /\ last.capability \in DOMAIN last.before
    /\ last.before[last.capability] = "Direct"
    /\ last.ty = "Transitive"
    /\ report_function.capabilities[last.capability] = "Direct"

-----------------------------------------------------------------------------
(* capslock/src/report.rs: impl Serialize for Process *)

\* the variants of Capability in the order of their discriminants, which is
\* the order of the derived Ord and so of a BTreeSet<Capability>
CapabilityOrder ==
    <<"UNSPECIFIED", "SAFE", "FILES", "NETWORK", "RUNTIME", "READ_SYSTEM_STATE",
      "MODIFY_SYSTEM_STATE", "OPERATING_SYSTEM", "SYSTEM_CALLS",
      "ARBITRARY_EXECUTION", "CGO", "UNANALYZED", "UNSAFE_POINTER", "REFLECT",
      "EXEC", "DYNAMIC_LOADING", "INSTRUMENTATION", "NATIVE_CODE">>

\* impl Serialize for Capability: the strum name
SerializeCapability(c) == "CAPABILITY_" \o c

\* impl Serialize for CapabilityType: the strum name
SerializeCapabilityType(t) ==
    CASE t = "Unspecified" -> "CAPABILITY_TYPE_UNSPECIFIED"
      [] t = "Direct" -> "CAPABILITY_TYPE_DIRECT"
      [] t = "Transitive" -> "CAPABILITY_TYPE_TRANSITIVE"

\* a BTreeSet<Capability> written as a JSON array
SerializeCapabilitySet(caps) ==
    LET in_set(c) == c \in caps
        sorted == SelectSeq(CapabilityOrder, in_set)
    IN  [i \in DOMAIN sorted |-> SerializeCapability(sorted[i])]

\* #[derive(Serialize)] for Function: the capabilities object, and syscalls
\* unless empty
SerializeFunction(function) ==
    LET caps == function.capabilities
        object == [display_name |-> function.name,
                   capabilities |->
                     [k \in {SerializeCapability(c) : c \in DOMAIN caps} |->
                        SerializeCapabilityType(
                          caps[CHOOSE c \in DOMAIN caps : SerializeCapability(c) = k])]]
    IN  IF function.syscalls = {} THEN object
        ELSE object @@ [syscalls |-> function.syscalls]

\* collect_syscalls
CollectSyscalls(fns) == UNION {fns[i].syscalls : i \in DOMAIN fns}

\* the serializer without the filter on Capability::Safe
SerializeProcessKeepSafe(p) ==
    LET object == [written |-> TRUE,
                   path |-> p.path,
                   capabilities |-> SerializeCapabilitySet(p.capabilities),
                   functions |-> [i \in DOMAIN p.functions |->
                                    SerializeFunction(p.functions[i])],
                   edges |-> p.edges]
    IN  IF CollectSyscalls(p.functions) = {} THEN object
        ELSE object @@ [syscalls |-> CollectSyscalls(p.functions)]

\* impl Serialize for Process
SerializeProcess(p) ==
    LET capabilities_ == p.capabilities \ {"SAFE"}
        object == [written |-> TRUE,
                   path |-> p.path,
                   capabilities |-> SerializeCapabilitySet(capabilities_),
                   functions |-> [i \in DOMAIN p.functions |->
                                    SerializeFunction(p.functions[i])],
                   edges |-> p.edges]
    IN  IF CollectSyscalls(p.functions) = {} THEN object
        ELSE object @@ [syscalls |-> CollectSyscalls(p.functions)]

\* the processes handed to the serializer
SerCaps == {"SAFE", "FILES", "NETWORK", "EXEC", "READ_SYSTEM_STATE"}

SerFunctions ==
    {<<>>,
     <<Function("f", CapMap({"SAFE"}, "Direct"))>>,
     <<[name |-> "f", capabilities |-> ("SAFE" :> "Transitive") @@ ("FILES" :> "Direct"),
        syscalls |-> {"read"}]>>,
     <<Function("f", CapMap({"NETWORK"}, "Direct")),
       Function("g", CapMap({"SAFE", "NETWORK"}, "Transitive"))>>}

SerInit ==
    /\ \E caps \in SUBSET SerCaps, fns \in SerFunctions :
          process = [path |-> <<"/", "bin", "cmd">>, capabilities |-> caps,
                     functions |-> fns, edges |-> <<>>]
    /\ report_function = Function("", NoCaps)
    /\ serialized = [written |-> FALSE]
    /\ SeccompIdle
    /\ CallIdle
    /\ TracerIdle
    /\ BubbleIdle
    /\ last = NoLast

\* serde_json::to_writer of the process: the serializer borrows it
SerSerialize ==
    /\ ~serialized.written
    /\ serialized' = SerializeProcess(process)
    /\ last' = [op |-> "serialize"]
    /\ UNCHANGED <<report_function, process>>
    /\ UNCHANGED <<bubbleVars, tracerVars, seccompVars, callVars>>

SerNext == SerSerialize

SpecSerialize == SerInit /\ [][SerNext]_vars

\* the strings of a serialized list
ListMembers(list) == {list[i] : i \in DOMAIN list}

NoRepeats(list) == \A i, j \in DOMAIN list : list[i] = list[j] => i = j

\* C12: the serialized capabilities exclude SAFE unless it is the only
\* capability; a process with capability set {SAFE} serializes them as
\* ["CAPABILITY_SAFE"].
C12_SafeKeptWhenAlone ==
    serialized.written =>
        IF process.capabilities = {"SAFE"}
        THEN serialized.capabilities = <<"CAPABILITY_SAFE">>
        ELSE "CAPABILITY_SAFE" \notin ListMembers(serialized.capabilities)

\* C13: for a capability set of at least two members the serialized list is
\* the set without SAFE, each member once; the process in memory is as it
\* was, and the capability maps of its functions are written with SAFE.
C13_SafeStripping ==
    /\ [](serialized.written /\ Cardinality(process.capabilities) >= 2 =>
            /\ ListMembers(serialized.capabilities)
                  = {SerializeCapability(c) : c \in process.capabilities \ {"SAFE"}}
            /\ NoRepeats(serialized.capabilities)
            /\ \A i \in DOMAIN process.functions :
                  DOMAIN serialized.functions[i].capabilities
                    = {SerializeCapability(c) :
                         c \in DOMAIN process.functions[i].capabilities})
    /\ [][last'.op = "serialize" => process' = process]_vars

\* {SAFE, FILES} was written as ["CAPABILITY_FILES"] next to a function whose
\* own map holds SAFE
C13_Witness ==
    /\ serialized.written
    /\ process.capabilities = {"SAFE", "FILES"}
    /\ serialized.capabilities = <<"CAPABILITY_FILES">>
    /\ Len(process.functions) = 1
    /\ "CAPABILITY_SAFE" \in DOMAIN serialized.functions[1].capabilities

-----------------------------------------------------------------------------
(* capslock-seccomp *)

\* the set of the values of a record of the document
Values(record) == {record[i] : i \in DOMAIN record}

\* CapabilityMap::from_reader, from the records of the parsed cm document
\* (key -> Vec of values): each Vec is collected into a HashSet
FromReader(document) == [s \in DOMAIN document |-> Values(document[s])]

\* get_syscalls without the test for a lone Capability::Safe
GetSyscallsSubsetOnly(map, caps) == {s \in DOMAIN map : map[s] \subseteq caps}

\* get_syscalls taking every syscall that shares a capability with the input
GetSyscallsOverlap(map, caps) ==
    {s \in DOMAIN map :
        \/ (Cardinality(map[s]) = 1 /\ "SAFE" \in map[s])
        \/ map[s] \cap caps # {}}

\* CapabilityMap::get_syscalls; the iterator is collected into a set by its
\* callers
GetSyscalls(map, caps) ==
    LET required == caps
    IN  {s \in DOMAIN map :
            \/ (Cardinality(map[s]) = 1 /\ "SAFE" \in map[s])
            \/ map[s] \subseteq required}

\* impl TryFrom<ActionDef> for Action: the error ("" for Ok) and the action
ActionTryFrom(value) ==
    CASE value.default_action = "SCMP_ACT_ALLOW" -> [err |-> "", action |-> [kind |-> "Allow"]]
      [] value.default_action = "SCMP_ACT_KILL" -> [err |-> "", action |-> [kind |-> "Kill"]]
      [] value.default_action = "SCMP_ACT_KILL_PROCESS" ->
            [err |-> "", action |-> [kind |-> "KillProcess"]]
      [] value.default_action = "SCMP_ACT_TRAP" -> [err |-> "", action |-> [kind |-> "Trap"]]
      [] value.default_action = "SCMP_ACT_ERRNO" ->
            IF value.default_action_errno = <<>>
            THEN [err |-> "NoErrno", action |-> [kind |-> ""]]
            ELSE [err |-> "", action |-> [kind |-> "Errno", errno |-> value.default_action_errno[1]]]
      [] value.default_action = "SCMP_ACT_TRACE" ->
            IF value.default_action_trace = <<>>
            THEN [err |-> "NoTrace", action |-> [kind |-> ""]]
            ELSE [err |-> "", action |-> [kind |-> "Trace", trace |-> value.default_action_trace[1]]]
      [] OTHER -> [err |-> "ActionUnknown", action |-> [kind |-> ""]]

\* the name of Action::Log, the variant main passes for the runtime syscalls
LogDisplay == "SCMP_ACT_LOG"

\* impl Display for Action
ActionDisplay(action) ==
    CASE action.kind = "Allow" -> "SCMP_ACT_ALLOW"
      [] action.kind = "Kill" -> "SCMP_ACT_KILL"
      [] action.kind = "KillProcess" -> "SCMP_ACT_KILL_PROCESS"
      [] action.kind = "Trap" -> "SCMP_ACT_TRAP"
      [] action.kind = "Errno" -> "SCMP_ACT_ERRNO"
      [] action.kind = "Trace" -> "SCMP_ACT_TRACE"
      [] action.kind = "Log" -> LogDisplay

\* Action::errno as the optional field it is serialized into
ErrnoField(name, action) ==
    IF action.kind = "Errno" THEN (name :> action.errno) ELSE <<>>

\* Policy::new
PolicyNew(default_action) ==
    [default_action |-> default_action, architectures |-> <<>>, syscalls |-> <<>>]

\* Policy::add_architecture
AddArchitecture(p, arch) == [p EXCEPT !.architectures = Append(@, arch)]

\* add_syscalls putting the new entry before the earlier ones
AddSyscallsFront(p, action, names) ==
    [p EXCEPT !.syscalls = <<[names |-> names, action |-> action]>> \o @]

\* Policy::add_syscalls: the names are collected into a BTreeSet
AddSyscalls(p, action, names) ==
    [p EXCEPT !.syscalls = Append(@, [names |-> names, action |-> action])]

\* impl Serialize for Syscalls
SerializeSyscalls(entry) ==
    [names |-> entry.names, action |-> ActionDisplay(entry.action)]
        @@ ErrnoField("errnoRet", entry.action)

\* impl Serialize for Policy
SerializePolicy(p) ==
    [written |-> TRUE, err |-> "",
     defaultAction |-> ActionDisplay(p.default_action),
     syscalls |-> [i \in DOMAIN p.syscalls |-> SerializeSyscalls(p.syscalls[i])]]
        @@ ErrnoField("defaultErrnoRet", p.default_action)
        @@ (IF p.architectures = <<>> THEN <<>>
            ELSE [architectures |-> p.architectures])

\* the syscalls runc itself needs, which main adds with Action::Log
RuntimeSyscalls ==
    {"capget", "capset", "chdir", "close", "epoll_pwait", "execve", "fchown",
     "fstat", "futex", "getdents64", "getppid", "newfstatat", "openat", "prctl",
     "read", "setgid", "setgroups", "setuid", "write"}

RECURSIVE AddArchitectures(_, _)
\* for arch in opt.architectures.into_iter() { policy.add_architecture(arch) }
AddArchitectures(p, archs) ==
    IF archs = <<>> THEN p
    ELSE AddArchitectures(AddArchitecture(p, Head(archs)), Tail(archs))

\* main of capslock-seccomp: opt holds the parsed command line, input_err the
\* error of opening or parsing the input ("" when it yields the capabilities
\* caps), document the records of syscalls.cm, write_ok whether stdout takes
\* the document; yields the error ("" for Ok), the map, the policy and what
\* was written
Main(opt, input_err, caps, document, write_ok) ==
    LET a == ActionTryFrom(opt.default_action)
        failed(err) == [err |-> err, cap_map |-> <<>>, policy |-> PolicyNew([kind |-> ""]),
                        output |-> [written |-> FALSE, err |-> err]]
    IN  IF a.err # "" THEN failed(a.err)
        ELSE IF input_err # "" THEN failed(input_err)
        ELSE LET map == FromReader(document)
                 p1 == AddArchitectures(PolicyNew(a.action), opt.architectures)
                 p2 == AddSyscalls(p1, [kind |-> "Allow"], GetSyscalls(map, caps))
                 p3 == AddSyscalls(p2, [kind |-> "Log"], RuntimeSyscalls)
             IN  [err |-> IF write_ok THEN "" ELSE "OutputWrite",
                  cap_map |-> map,
                  policy |-> p3,
                  output |-> IF write_ok THEN SerializePolicy(p3)
                             ELSE [written |-> FALSE, err |-> "OutputWrite"]]

\* TESTDATA of tests::map
TestDocument ==
    [safe |-> <<"SAFE">>,
     files |-> <<"FILES">>,
     files_network |-> <<"FILES", "NETWORK">>,
     network_files |-> <<"NETWORK", "FILES">>,
     read_system_state |-> <<"READ_SYSTEM_STATE">>,
     all |-> <<"FILES", "NETWORK", "READ_SYSTEM_STATE">>]

\* records that repeat capabilities, and SAFE next to another capability
RepeatDocument ==
    [safe_safe |-> <<"SAFE", "SAFE">>,
     files_files |-> <<"FILES", "FILES">>,
     safe_files |-> <<"SAFE", "FILES">>,
     files_safe_files |-> <<"FILES", "SAFE", "FILES">>,
     network |-> <<"NETWORK">>]

\* the example of the capability-map text format
ExampleDocument ==
    [read |-> <<"FILES">>,
     write |-> <<"FILES">>,
     sendto |-> <<"NETWORK">>,
     openat |-> <<"FILES">>,
     socket |-> <<"NETWORK">>,
     exit_group |-> <<"SAFE">>]

SecDocuments == {TestDocument, RepeatDocument, ExampleDocument}

SecCaps == {"SAFE", "FILES", "NETWORK", "READ_SYSTEM_STATE", "CGO"}

ActionDef(default_action, errno, trace) ==
    [default_action |-> default_action, default_action_errno |-> errno,
     default_action_trace |-> trace]

SecOpts ==
    {[architectures |-> archs, default_action |-> def] :
        archs \in {<<>>, <<"SCMP_ARCH_X86_64">>},
        def \in {ActionDef("SCMP_ACT_KILL_PROCESS", <<>>, <<>>),
                 ActionDef("SCMP_ACT_ERRNO", <<1>>, <<>>),
                 ActionDef("SCMP_ACT_ERRNO", <<>>, <<>>),
                 ActionDef("SCMP_ACT_BOGUS", <<>>, <<>>)}}

SecInit ==
    /\ syscalls_cm \in SecDocuments
    /\ requested \in SUBSET SecCaps
    /\ cap_map = <<>>
    /\ policy = PolicyNew([kind |-> ""])
    /\ output = [written |-> FALSE, err |-> ""]
    /\ ReportIdle
    /\ CallIdle
    /\ TracerIdle
    /\ BubbleIdle
    /\ last = NoLast

\* tests::assert_syscalls: get_syscalls on the map read from the document
SecGetSyscalls ==
    /\ last.op = "none"
    /\ cap_map' = FromReader(syscalls_cm)
    /\ last' = [op |-> "get_syscalls",
                result |-> GetSyscalls(FromReader(syscalls_cm), requested)]
    /\ UNCHANGED <<syscalls_cm, requested, policy, output>>
    /\ UNCHANGED <<bubbleVars, tracerVars, reportVars, callVars>>

\* one run of main
SecMain ==
    /\ ~output.written /\ output.err = ""
    /\ \E opt \in SecOpts, input_err \in {"", "InputOpen", "InputParse"},
          write_ok \in BOOLEAN :
          LET r == Main(opt, input_err, requested, syscalls_cm, write_ok)
          IN  /\ input_err = "" \/ write_ok
              /\ cap_map' = r.cap_map
              /\ policy' = r.policy
              /\ output' = r.output
              /\ last' = [op |-> "main", opt |-> opt, err |-> r.err]
    /\ UNCHANGED <<syscalls_cm, requested>>
    /\ UNCHANGED <<bubbleVars, tracerVars, reportVars, callVars>>

SecNext == SecGetSyscalls \/ SecMain

SpecSeccomp == SecInit /\ [][SecNext]_vars

\* C(s) of the claims: the capabilities of the record of s, as a set
CapsOf(s) == {syscalls_cm[s][i] : i \in DOMAIN syscalls_cm[s]}

\* C(s) is within the requested capabilities or is {SAFE}
Permitted(s) == CapsOf(s) \subseteq requested \/ CapsOf(s) = {"SAFE"}

\* C14: get_syscalls(R) returns exactly the syscalls of the table whose
\* capability set is a subset of R or is {SAFE}, whatever the order and
\* repetition in the record; on the six-row test table it returns the sets
\* listed for the empty set, {FILES}, {FILES, NETWORK}, all three and {CGO}.
C14_GetSyscallsExact ==
    last.op = "get_syscalls" =>
        /\ last.result = {s \in DOMAIN syscalls_cm : Permitted(s)}
        /\ syscalls_cm = TestDocument =>
              /\ requested = {} => last.result = {"safe"}
              /\ requested = {"CGO"} => last.result = {"safe"}
              /\ requested = {"FILES"} => last.result = {"safe", "files"}
              /\ requested = {"FILES", "NETWORK"} =>
                    last.result = {"safe", "files", "files_network", "network_files"}
              /\ requested = {"FILES", "NETWORK", "READ_SYSTEM_STATE"} =>
                    last.result = DOMAIN TestDocument

\* records with repeated capabilities were matched as sets
C14_Witness ==
    /\ last.op = "get_syscalls"
    /\ syscalls_cm = RepeatDocument
    /\ requested = {"FILES"}
    /\ last.result = {"safe_safe", "files_files"}

\* C15 as stated: every syscall named in any entry of the written policy has
\* a capability set within the requested capabilities or equal to {SAFE}.
C15_EveryNamePermitted ==
    output.written =>
        \A i \in DOMAIN output.syscalls :
            \A s \in output.syscalls[i].names :
                s \in DOMAIN syscalls_cm => Permitted(s)

\* C15 as amended: every syscall named in the ALLOW entry of the written
\* policy is a syscall of the table whose capability set is within the
\* requested capabilities or equal to {SAFE}.
C15_AllowedNamesPermitted ==
    output.written =>
        \A i \in DOMAIN output.syscalls :
            output.syscalls[i].action = "SCMP_ACT_ALLOW" =>
                \A s \in output.syscalls[i].names :
                    s \in DOMAIN syscalls_cm /\ Permitted(s)

\* {NETWORK} against the example table allowed sendto, socket and exit_group
C15_Witness ==
    /\ output.written
    /\ syscalls_cm = ExampleDocument
    /\ requested = {"NETWORK"}
    /\ output.syscalls[1].action = "SCMP_ACT_ALLOW"
    /\ output.syscalls[1].names = {"sendto", "socket", "exit_group"}

\* C16: the syscalls list of the written policy is the ALLOW entry computed
\* from the capabilities followed by one LOG entry naming exactly the 19
\* runtime syscalls, whatever the input.
C16_AllowThenLog ==
    output.written =>
        /\ Len(output.syscalls) = 2
        /\ output.syscalls[1].action = "SCMP_ACT_ALLOW"
        /\ output.syscalls[1].names = {s \in DOMAIN syscalls_cm : Permitted(s)}
        /\ output.syscalls[2].action = ActionDisplay([kind |-> "Log"])
        /\ output.syscalls[2].names =
              {"capget", "capset", "chdir", "close", "epoll_pwait", "execve",
               "fchown", "fstat", "futex", "getdents64", "getppid", "newfstatat",
               "openat", "prctl", "read", "setgid", "setgroups", "setuid", "write"}
        /\ Cardinality(output.syscalls[2].names) = 19

\* a policy with default action ERRNO was written for {FILES}
C16_Witness ==
    /\ output.written
    /\ syscalls_cm = TestDocument
    /\ requested = {"FILES"}
    /\ output.defaultAction = "SCMP_ACT_ERRNO"
    /\ output.syscalls[1].names = {"safe", "files"}
    /\ Len(output.syscalls) = 2

-----------------------------------------------------------------------------
(* ioctl on a typed descriptor: src/src/runtime/syscall/ioctl.rs and the
   Ioctl arm of Meta::into_capabilities *)

\* the syscalls of the runs that exercise ioctl: descriptors are created by
\* socket and open, or are known to procfs only
IoctlSyscalls ==
    {SyscallArgs("socket", 0, {"SOCK_STREAM"}, <<>>, 0, "Inet"),
     SyscallArgs("socket", 0, {"SOCK_STREAM"}, <<>>, 0, "Unix"),
     SyscallArgs("socket", 0, {"SOCK_STREAM"}, <<>>, 0, "Packet"),
     Syscall("open", 0, {}, <<"/", "tmp", "x">>)}
    \cup {SyscallArgs("ioctl", fd, {}, <<>>, cmd, "") : fd \in Fds, cmd \in {1, 2}}

IoctlUnwinds == {Unwind(TRUE, <<"f", "_start">>, FALSE)}

IoctlInit == TracerInit(TRUE, FALSE)

IoctlNext ==
    \/ EvSyscallEntry(IoctlSyscalls)
    \/ EvSyscallExit(IoctlUnwinds)

SpecIoctl == IoctlInit /\ [][IoctlNext]_vars

\* the capabilities of an ioctl on fd, read off the FD table after the exit
IoctlByType(state, fd) ==
    IF fd \notin DOMAIN state.fds THEN Lookup["ioctl"]
    ELSE LET ty == state.fds[fd].ty
         IN  CASE ty.kind = "Char" -> {"SAFE"}
               [] ty.kind \in {"Directory", "File"} -> {"FILES"}
               [] ty.kind = "Socket" ->
                    IF ty.domain = "Unix" THEN {"FILES"} ELSE {"NETWORK"}
               [] ty.kind = "SocketInode" -> {"NETWORK"}
               [] ty.kind \in {"Block", "Fifo", "Unknown"} -> Lookup["ioctl"]

IoctlExitStep ==
    \A pid \in Pids :
        (/\ userdata[pid].in_syscall
         /\ userdata[pid].meta # <<>>
         /\ userdata[pid].meta[1].typed.kind = "Ioctl"
         /\ nevents' # nevents
         /\ last'.op = "SyscallExit" /\ last'.pid = pid /\ ~last'.is_error)
        => LET fd == userdata[pid].meta[1].typed.fd
               old == processes.active[pid]
               new == processes'.active[pid]
           IN  /\ last'.err = ""
               /\ last'.caps = IoctlByType(new, fd)
               /\ new.caps = old.caps \cup last'.caps
               /\ fd \in DOMAIN old.fds => new.fds = old.fds
               /\ new.fds \in {old.fds} \cup
                    {InferFd(old, fd, procfs).state.fds : procfs \in ProcfsOutcomes}

\* C17: on a successful ioctl exit, for every cmd, the capabilities are those
\* of the type the FD table holds for the descriptor after the exit (recorded
\* before, or inferred from procfs by the exit): Char gives {SAFE}, Directory
\* or File {FILES}, a Unix socket {FILES}, another Socket or a SocketInode
\* {NETWORK}; Block, Fifo, Unknown, and a descriptor that is unknown and not
\* inferred, give the name table's entry for ioctl; the type-based set is the
\* whole result
C17_IoctlByFdType == [][IoctlExitStep]_vars

\* an ioctl on a recorded Unix socket gave {FILES}, and not the table's entry
C17_Witness ==
    /\ last.op = "SyscallExit" /\ last.nr = "ioctl" /\ ~last.is_error
    /\ last.caps = {"FILES"}
    /\ last.caps # Lookup["ioctl"]
    /\ DOMAIN processes.active[InitPid].fds # {}
    /\ \A fd \in DOMAIN processes.active[InitPid].fds :
          /\ processes.active[InitPid].fds[fd].ty.kind = "Socket"
          /\ processes.active[InitPid].fds[fd].ty.domain = "Unix"

-----------------------------------------------------------------------------
(* openat and openat2 at syscall entry: resolve_at_syscall *)

\* the syscalls of the runs that exercise the path resolution: absolute and
\* relative paths, dfd AT_FDCWD or a descriptor that is recorded (by openat,
\* socket) or known to procfs only; chdir moves the working directory
OpenatPaths == {<<"/", "a">>, <<"r">>}

OpenatSyscalls ==
    {Syscall("openat", dfd, {}, path) : dfd \in Fds \cup {AtFdcwd}, path \in OpenatPaths}
    \cup {Syscall("openat2", dfd, {"O_CLOEXEC"}, <<"r">>) : dfd \in Fds \cup {AtFdcwd}}
    \cup {Syscall("socket", 0, {"SOCK_STREAM"}, <<>>),
          Syscall("chdir", 0, {}, <<"/", "tmp">>)}

OpenatUnwinds == {Unwind(TRUE, <<"f", "_start">>, FALSE)}

OpenatInit == TracerInit(TRUE, FALSE)

OpenatNext ==
    \/ EvSyscallEntry(OpenatSyscalls)
    \/ EvSyscallExit(OpenatUnwinds)

SpecOpenat == OpenatInit /\ [][OpenatNext]_vars

\* the last event is the entry of an openat or openat2 whose arguments the
\* tracer could read
OpenatEntered ==
    /\ last.op = "SyscallEntry"
    /\ last.nr \in {"openat", "openat2"}
    /\ last.err # "Args"

\* the typed record attached to the entry of last.pid is FdCreate of a File
\* with the given path
AttachedFile(path) ==
    /\ last.err = ""
    /\ userdata[last.pid].meta # <<>>
    /\ userdata[last.pid].meta[1].typed.kind = "FdCreate"
    /\ userdata[last.pid].meta[1].typed.meta.ty = [kind |-> "File", path |-> path]

\* C18: at the entry of openat/openat2 an absolute path resolves to itself
\* whatever dirfd is; a relative path with dirfd = AT_FDCWD resolves to the
\* working directory followed by the path; a relative path with another dirfd
\* whose type (recorded or inferred) is Directory or File resolves to that
\* descriptor's path followed by the path, and with any other type the entry
\* fails with Resolve and no typed record is attached
C18_OpenatResolution ==
    OpenatEntered =>
        LET state == processes.active[last.pid]
            dfd == last.syscall.fd
            local == last.syscall.path
        IN  CASE local[1] = "/" -> AttachedFile(local)
              [] local[1] # "/" /\ dfd = -100 -> AttachedFile(state.wd \o local)
              [] local[1] # "/" /\ dfd # -100 /\ dfd \in DOMAIN state.fds ->
                    IF state.fds[dfd].ty.kind \in {"Directory", "File"}
                    THEN AttachedFile(state.fds[dfd].ty.path \o local)
                    ELSE last.err = "Resolve" /\ userdata[last.pid].meta = <<>>
              [] OTHER -> last.err = "Procfs" /\ userdata[last.pid].meta = <<>>

\* a relative path was resolved against a directory inferred from procfs
C18_Witness ==
    /\ OpenatEntered
    /\ last.syscall.path = <<"r">>
    /\ last.syscall.fd \in DOMAIN processes.active[last.pid].fds
    /\ processes.active[last.pid].fds[last.syscall.fd].ty.kind = "Directory"
    /\ AttachedFile(<<"/", "d", "r">>)

\* a relative path against a socket failed with Resolve
C18_WitnessResolve ==
    /\ OpenatEntered
    /\ last.err = "Resolve"
    /\ processes.active[last.pid].fds[last.syscall.fd].ty.kind = "Socket"

-----------------------------------------------------------------------------
(* a syscall that the syscall -> capabilities table does not name *)

\* a capability map that names read only
MissDocument == [read |-> <<"FILES">>]

\* the syscalls of the runs that exercise the miss: one the map names, an
\* untyped one it does not name, and one of each typed record
MissSyscalls ==
    {Syscall("read", 0, {}, <<>>),
     Syscall("nosuch", 0, {}, <<>>),
     Syscall("open", 0, {}, <<"/", "f">>),
     Syscall("chdir", 0, {}, <<"/", "tmp">>),
     Syscall("execve", 0, {}, <<"/", "bin", "x">>),
     SyscallArgs("ioctl", 3, {}, <<>>, 1, "")}
    \cup {Syscall("close", fd, {}, <<>>) : fd \in Fds}

MissUnwinds == {Unwind(TRUE, <<"f", "_start">>, FALSE)}

MissInit ==
    /\ processes = MapNew(InitPid, InitExec, InitWd, TRUE)
    /\ include_syscalls = FALSE
    /\ userdata = [p \in Pids |-> NoSyscall]
    /\ nevents = 0
    /\ last = NoLast
    /\ BubbleIdle
    /\ ReportIdle
    /\ CallIdle
    /\ syscalls_cm = MissDocument
    /\ cap_map = <<>>
    /\ requested = {}
    /\ policy = [default_action |-> [kind |-> ""], architectures |-> <<>>, syscalls |-> <<>>]
    /\ output = [written |-> FALSE, err |-> ""]

MissNext ==
    \/ EvSyscallEntry(MissSyscalls)
    \/ EvSyscallExit(MissUnwinds)

SpecMiss == MissInit /\ [][MissNext]_vars

\* the step is the handling of a successful exit of pid's syscall in flight,
\* whose name the table does not hold
MissExit(pid) ==
    /\ userdata[pid].in_syscall
    /\ userdata[pid].nr \notin DOMAIN Lookup
    /\ nevents' # nevents
    /\ last'.op = "SyscallExit" /\ last'.pid = pid /\ ~last'.is_error

\* nothing is added to the capabilities, the functions and the call graph
NothingAttributed(pid) ==
    /\ processes'.active[pid].caps = processes.active[pid].caps
    /\ processes'.active[pid].functions = processes.active[pid].functions
    /\ processes'.active[pid].call_graph = processes.active[pid].call_graph

\* the mutation of the typed record attached at the entry is in the state
MutationApplied(pid) ==
    LET old == processes.active[pid]
        new == processes'.active[pid]
        typed == IF userdata[pid].meta = <<>> THEN NoTyped
                 ELSE userdata[pid].meta[1].typed
    IN  CASE typed.kind = "FdCreate" ->
                /\ last'.sval \in DOMAIN new.fds
                /\ new.fds[last'.sval] = typed.meta
          [] typed.kind = "Close" -> typed.fd \notin DOMAIN new.fds
          [] typed.kind = "Chdir" -> new.wd = typed.path
          [] typed.kind = "Exec" ->
                /\ Len(new.execs) = Len(old.execs) + 1
                /\ new.execs[Len(new.execs)].command = typed.path
          [] OTHER -> TRUE

\* the Ioctl record of pid's syscall in flight finds a type that ioctl::caps
\* maps to capabilities
IoctlDecides(pid) ==
    /\ userdata[pid].meta # <<>>
    /\ userdata[pid].meta[1].typed.kind = "Ioctl"
    /\ LET fd == userdata[pid].meta[1].typed.fd
           fds == processes'.active[pid].fds
       IN  /\ fd \in DOMAIN fds
           /\ fds[fd].ty.kind \in {"Char", "Directory", "File", "Socket", "SocketInode"}

MissStepAny ==
    \A pid \in Pids : MissExit(pid) => NothingAttributed(pid) /\ MutationApplied(pid)

MissStep ==
    \A pid \in Pids :
        MissExit(pid) /\ ~IoctlDecides(pid)
        => /\ last'.err \in {"SyscallMissingFromMap", "SyscallMetaMissing"}
           /\ NothingAttributed(pid)
           /\ MutationApplied(pid)

\* C19 as stated: whenever a successful exit is handled for a syscall whose
\* name is absent from the table, the capability set, function map and call
\* graph are unchanged and the typed mutation is applied
C19_AbsentNameAddsNothing == [][MissStepAny]_vars

\* C19: when a successful exit is handled for a syscall whose name is absent
\* from the table, other than an ioctl whose descriptor has a type that
\* decides the capabilities, the capability set, function map and call graph
\* are unchanged, and the mutation of the typed record attached at the entry
\* (FD insert, close, chdir, exec push) is applied
C19_MissAddsNothing == [][MissStep]_vars

\* an open missed the table: nothing is attributed though the stack has
\* frames, and its descriptor is recorded
C19_Witness ==
    /\ last.op = "SyscallExit" /\ last.nr = "open" /\ ~last.is_error
    /\ last.err = "SyscallMissingFromMap"
    /\ last.unwind = Unwind(TRUE, <<"f", "_start">>, FALSE)
    /\ last.sval \in DOMAIN processes.active[InitPid].fds
    /\ processes.active[InitPid].fds[last.sval].ty = TypeFile(<<"/", "f">>)
    /\ processes.active[InitPid].caps = {}
    /\ processes.active[InitPid].functions = EmptyFunctionMap

-----------------------------------------------------------------------------
(* include_syscalls: insert_syscall on the Direct frame's Function *)

\* the index in names of the innermost frame whose name parses (0 for none)
DirectFrame(names) ==
    IF \A i \in DOMAIN names : names[i] \in MalformedNames THEN 0
    ELSE CHOOSE i \in DOMAIN names :
            /\ names[i] \notin MalformedNames
            /\ \A j \in 1..(i - 1) : names[j] \in MalformedNames

\* the last event was a successful exit whose frames were attributed
ExitAttributed ==
    /\ ExitHandled
    /\ WalkCompleted
    /\ ~processes.active[last.pid].waiting_for_start
    /\ DirectFrame(last.unwind.names) # 0

\* after an attributed exit the Direct frame's function holds the syscall
DirectHoldsSyscall ==
    (include_syscalls /\ ExitAttributed) =>
        LET fm == processes.active[last.pid].functions
            name == last.unwind.names[DirectFrame(last.unwind.names)]
        IN  /\ name \in DOMAIN fm.ids
            /\ last.nr \in Get(fm, fm.ids[name]).syscalls

\* a successful exit adds a syscall name to no function but the one of its
\* Direct frame, and adds no name but the syscall's
AncestorsGetNoneStep ==
    \A p \in DOMAIN processes.active \cap DOMAIN processes'.active :
        LET old == processes.active[p].functions
            new == processes'.active[p].functions
        IN  \A name \in DOMAIN new.ids :
                LET before_ == IF name \in DOMAIN old.ids
                               THEN Get(old, old.ids[name]).syscalls ELSE {}
                    after == Get(new, new.ids[name]).syscalls
                IN  after # before_ =>
                        /\ last'.op = "SyscallExit" /\ last'.pid = p
                        /\ DirectFrame(last'.unwind.names) # 0
                        /\ name = last'.unwind.names[DirectFrame(last'.unwind.names)]
                        /\ after = before_ \cup {last'.nr}

\* with include_syscalls disabled every syscalls set is empty
DisabledStaysEmpty ==
    ~include_syscalls =>
        \A p \in DOMAIN processes.active :
            \A i \in DOMAIN processes.active[p].functions.functions :
                processes.active[p].functions.functions[i].syscalls = {}

\* C20: with include_syscalls enabled, after every attributed successful
\* syscall exit the syscall's name is in the syscalls set of the function of
\* the innermost named frame, whatever the function map held before; no
\* function gets a name from being an ancestor frame; with include_syscalls
\* disabled every syscalls set stays empty
C20_DirectFrameGetsSyscall ==
    /\ [](DirectHoldsSyscall)
    /\ [][AncestorsGetNoneStep]_vars
    /\ [](DisabledStaysEmpty)

\* the two parts of C20 that hold of the code
C20_OnlyDirectAndOnlyEnabled ==
    /\ [][AncestorsGetNoneStep]_vars
    /\ [](DisabledStaysEmpty)

-----------------------------------------------------------------------------
(* The report of the traced process tree: Map::into_report *)

\* Runtime::run after the event loop: the report is built from the process
\* map; no event is handled after it
EvReport ==
    /\ last.op # "IntoReport"
    /\ \E include_children \in BOOLEAN :
          LET r == IntoReport(processes, include_children)
          IN  last' = [op |-> "IntoReport", include_children |-> include_children,
                       err |-> r.err, processes |-> r.processes]
    /\ nevents' = MaxEvents
    /\ UNCHANGED <<processes, include_syscalls, userdata>>
    /\ UNCHANGED <<bubbleVars, reportVars, seccompVars, callVars>>

\* the syscalls and stacks of the runs that end in a report
ReportSyscalls ==
    {Syscall("read", 0, {}, <<>>),
     Syscall("sendto", 0, {}, <<>>)}

ReportUnwinds ==
    {Unwind(TRUE, <<"f", "_start">>, FALSE),
     Unwind(TRUE, <<"g", "f", "_start">>, FALSE)}

ReportInit == TracerInit(TRUE, FALSE)

ReportNext ==
    \/ EvClone
    \/ EvExited
    \/ EvSyscallEntry(ReportSyscalls)
    \/ EvSyscallExit(ReportUnwinds)
    \/ EvReport

SpecReport == ReportInit /\ [][ReportNext]_vars

\* the number of process states the map holds
Population(map) == Cardinality(DOMAIN map.active) + Len(map.inactive)

\* what a process state shows in the report
Shown(state) ==
    [path |-> IF Len(state.execs) > 0 THEN Head(state.execs).command ELSE <<>>,
     capabilities |-> state.caps,
     functions |-> state.functions.functions,
     edges |-> state.call_graph]

\* the active pids other than the init pid, in ascending order, as a sequence
RECURSIVE Ascending(_)
Ascending(pids) ==
    IF pids = {} THEN <<>>
    ELSE LET least == CHOOSE p \in pids : \A q \in pids : p <= q
         IN  <<least>> \o Ascending(pids \ {least})

\* no event loses or duplicates a process state: a successful Clone adds
\* one to the active ones, and an exit moves a state, as it is, to the end
\* of the exited ones
PopulationStep ==
    /\ (last'.op = "Clone" /\ last'.err = "")
          => /\ Population(processes') = Population(processes) + 1
             /\ processes'.inactive = processes.inactive
    /\ last'.op = "Exited"
          => /\ Population(processes') = Population(processes)
             /\ \/ processes' = processes
                \/ /\ last'.pid \in DOMAIN processes.active
                   /\ last'.pid \notin DOMAIN processes'.active
                   /\ processes'.inactive =
                        Append(processes.inactive,
                               <<last'.pid, processes.active[last'.pid]>>)
    /\ last'.op \in {"SyscallEntry", "SyscallExit", "IntoReport"}
          => /\ DOMAIN processes'.active = DOMAIN processes.active
             /\ Len(processes'.inactive) = Len(processes.inactive)
             /\ processes'.inactive = processes.inactive
    /\ processes.init_pid \in DOMAIN processes.active

\* the report built in this step, against the map it was built from
ReportStep ==
    last'.op = "IntoReport" =>
        LET map == processes
            others == Ascending(DOMAIN map.active \ {map.init_pid})
            n == Len(others)
            report == last'.processes
        IN  /\ last'.err = ""
            /\ report[1] = Shown(map.active[map.init_pid])
            /\ ~last'.include_children => Len(report) = 1
            /\ last'.include_children =>
                  /\ Len(report) = Population(map)
                  /\ \A i \in 1..n : report[1 + i] = Shown(map.active[others[i]])
                  /\ \A i \in 1..Len(map.inactive) :
                        report[1 + n + i] = Shown(map.inactive[i][2])

-----------------------------------------------------------------------------
(* Per-process state: one State per pid in Map.active *)

\* the syscalls of the runs that exercise the isolation: each typed record
\* that changes the process state at the exit, and the two that can change it
\* at the entry or exit through infer_fd
IsolationSyscalls ==
    {Syscall("read", 0, {}, <<>>),
     Syscall("open", 0, {}, <<"/", "f">>),
     Syscall("chdir", 0, {}, <<"/", "tmp">>),
     Syscall("execve", 0, {}, <<"/", "bin", "x">>),
     Syscall("close", 3, {}, <<>>),
     Syscall("openat", 4, {}, <<"r">>),
     SyscallArgs("ioctl", 4, {}, <<>>, 1, "")}

IsolationUnwinds == {Unwind(TRUE, <<"f", "_start">>, FALSE)}

IsolationInit == TracerInit(TRUE, FALSE)

IsolationNext ==
    \/ EvClone
    \/ EvExited
    \/ EvSyscallEntry(IsolationSyscalls)
    \/ EvSyscallExit(IsolationUnwinds)

SpecIsolation == IsolationInit /\ [][IsolationNext]_vars

\* every process of the map but pid is, after the step, what it was before
OthersUnchanged(pid) ==
    /\ \A q \in DOMAIN processes.active \ {pid} :
          /\ q \in DOMAIN processes'.active
          /\ processes'.active[q] = processes.active[q]
    /\ DOMAIN processes'.active \subseteq DOMAIN processes.active \cup {pid}
    /\ processes'.inactive = processes.inactive

IsolationStep ==
    /\ last'.op \in {"SyscallEntry", "SyscallExit"} =>
          /\ OthersUnchanged(last'.pid)
          /\ DOMAIN processes'.active = DOMAIN processes.active
    /\ (last'.op = "Clone" /\ last'.err = "") =>
          /\ OthersUnchanged(last'.child)
          /\ last'.pid \in DOMAIN processes.active
          /\ processes'.active[last'.pid] = processes.active[last'.pid]
          /\ LET child == processes'.active[last'.child]
             IN  /\ child.caps = {}
                 /\ child.functions = EmptyFunctionMap
                 /\ child.call_graph = <<>>
                 /\ child.execs = <<>>
                 /\ child.pid = last'.child

\* C22: a SyscallEntry or SyscallExit of pid p changes no state of another
\* process; a Clone leaves the parent and every other process unchanged and
\* gives the child an empty capability set, function map, call graph and exec
\* queue; so what the parent does to its FD table or working directory after
\* the clone never shows in the child, nor the reverse
C22_ProcessIsolation == [][IsolationStep]_vars

\* parent and child have both changed their state since a clone: the parent
\* holds capabilities and functions, the child another working directory
C22_Witness ==
    /\ DOMAIN processes.active = {1, 2}
    /\ processes.active[1].caps # {}
    /\ processes.active[1].functions # EmptyFunctionMap
    /\ processes.active[2].caps # {}
    /\ processes.active[2].wd # processes.active[1].wd
    /\ last.op = "SyscallExit" /\ last.pid = 2

-----------------------------------------------------------------------------
(* src/cm/src/lib.rs: the capability-map text format. A line is the sequence
   of its characters. *)

MaxLines == 3

\* char::is_whitespace / u8::is_ascii_whitespace on the characters of the model
IsWhitespace(c) == c \in {" ", "\t"}

RECURSIVE TrimStart(_)
\* str::trim_start
TrimStart(content) ==
    IF content = <<>> THEN <<>>
    ELSE IF IsWhitespace(Head(content)) THEN TrimStart(Tail(content))
    ELSE content

RECURSIVE TrimEnd(_)
\* str::trim_end
TrimEnd(content) ==
    IF content = <<>> THEN <<>>
    ELSE IF IsWhitespace(content[Len(content)])
    THEN TrimEnd(SubSeq(content, 1, Len(content) - 1))
    ELSE content

\* str::trim
Trim(content) == TrimEnd(TrimStart(content))

\* str::starts_with(char)
StartsWith(content, c) == content # <<>> /\ Head(content) = c

RECURSIVE SplitAsciiWhitespace(_)
\* str::split_ascii_whitespace, collected: the maximal runs of characters
\* that are not whitespace
SplitAsciiWhitespace(content) ==
    LET rest == TrimStart(content)
    IN  IF rest = <<>> THEN <<>>
        ELSE LET n == CHOOSE k \in 1..Len(rest) :
                        /\ \A j \in 1..k : ~IsWhitespace(rest[j])
                        /\ k = Len(rest) \/ IsWhitespace(rest[k + 1])
             IN  <<SubSeq(rest, 1, n)>>
                 \o SplitAsciiWhitespace(SubSeq(rest, n + 1, Len(rest)))

\* <Key as FromStr>::from_str and <Value as FromStr>::from_str, supplied by
\* the client: the parsers of the model reject the fields that begin with '!'
KeyFromStr(field) == [ok |-> Head(field) # "!", key |-> field]
ValueFromStr(field) == [ok |-> Head(field) # "!", value |-> field]

\* a line of the reader: io::Lines yields its content or a read error
Line(content) == [read_ok |-> TRUE, content |-> content]
ReadFailure == [read_ok |-> FALSE, content |-> <<>>]

\* an insert that moves a key that is present to the end
IndexMapInsertMoveToEnd(records, key, values) ==
    Append(SelectSeq(records, LAMBDA r : r.key # key),
           [key |-> key, values |-> values])

\* IndexMap::insert: the value of a key that is present is replaced where it
\* stands, another key is appended
IndexMapInsert(records, key, values) ==
    IF \E i \in DOMAIN records : records[i].key = key
    THEN [i \in DOMAIN records |->
            IF records[i].key = key THEN [key |-> key, values |-> values]
            ELSE records[i]]
    ELSE Append(records, [key |-> key, values |-> values])

\* enumerate() counts from 0 with `let line = line + 1` dropped
LineNumberFromZero(index) == index

\* `let line = line + 1`, for the index that enumerate() gives the line
LineNumber(index) == index + 1

\* the results of Document::from_reader: `line` and `field` are 0 where the
\* variant has none, `records` is empty for every Err
DocumentOk(records) == [err |-> "", line |-> 0, field |-> 0, records |-> records]
DocumentErr(err, line, field) ==
    [err |-> err, line |-> line, field |-> field, records |-> <<>>]

\* the values of a record: the error of the first field that fails to parse
\* (try_collect), or the values
ParseValues(fields, line) ==
    IF \E f \in DOMAIN fields : ~ValueFromStr(fields[f]).ok
    THEN LET first == CHOOSE f \in DOMAIN fields :
                        /\ ~ValueFromStr(fields[f]).ok
                        /\ \A g \in 1..(f - 1) : ValueFromStr(fields[g]).ok
         IN  [err |-> "Value", field |-> first, values |-> <<>>]
    ELSE [err |-> "", field |-> 0,
          values |-> [f \in DOMAIN fields |-> ValueFromStr(fields[f]).value]]

RECURSIVE FromReaderLoop(_, _, _)
\* the loop `for (line, result) in reader.lines().enumerate()` from the
\* 0-based index on, with the records inserted so far
FromReaderLoop(lines, index, records) ==
    IF index >= Len(lines) THEN DocumentOk(records)
    ELSE LET line == LineNumber(index)
             result == lines[index + 1]
             content == result.content
             fields == SplitAsciiWhitespace(Trim(content))
         IN  IF ~result.read_ok THEN DocumentErr("Read", line, 0)
             ELSE IF StartsWith(TrimStart(content), "#") \/ Trim(content) = <<>>
             THEN FromReaderLoop(lines, index + 1, records)
             ELSE IF Len(fields) < 2 THEN DocumentErr("InsufficientFields", line, 0)
             ELSE IF ~KeyFromStr(Head(fields)).ok THEN DocumentErr("Key", line, 0)
             ELSE LET values == ParseValues(Tail(fields), line)
                  IN  IF values.err # ""
                      THEN DocumentErr(values.err, line, values.field)
                      ELSE FromReaderLoop(lines, index + 1,
                              IndexMapInsert(records, KeyFromStr(Head(fields)).key,
                                             values.values))

\* Document::from_reader
DocumentFromReader(lines) == FromReaderLoop(lines, 0, <<>>)

\* the lines of the inputs: empty, blank, comments, records with one field,
\* records of the keys k and j, records whose key or value does not parse,
\* and a line that cannot be read
CmLines ==
    {Line(<<>>),
     Line(<<" ", "\t">>),
     Line(<<"#", "k", " ", "v">>),
     Line(<<" ", "#">>),
     Line(<<"k">>),
     Line(<<" ", "j", " ">>),
     Line(<<"k", " ", "v">>),
     Line(<<"k", " ", "w", " ", "v">>),
     Line(<<"j", "\t", " ", "v">>),
     Line(<<"j", " ", "w">>),
     Line(<<"k", " ", "#">>),
     Line(<<"!", " ", "v">>),
     Line(<<"k", " ", "v", " ", "!">>),
     ReadFailure}

CmInputs == UNION {[1..n -> CmLines] : n \in 0..MaxLines}

CmInit ==
    /\ argument \in {[fn |-> "from_reader", lines |-> lines] : lines \in CmInputs}
    /\ returned = NoCall
    /\ last = NoLast
    /\ BubbleIdle
    /\ TracerIdle
    /\ ReportIdle
    /\ SeccompIdle

CmFromReader ==
    /\ returned = NoCall
    /\ returned' = [fn |-> "from_reader",
                    result |-> DocumentFromReader(argument.lines)]
    /\ UNCHANGED <<argument, last>>
    /\ UNCHANGED <<bubbleVars, tracerVars, reportVars, seccompVars>>

CmNext == CmFromReader

SpecCm == CmInit /\ [][CmNext]_vars

\* from_reader has returned
CmReturned == returned # NoCall /\ returned.fn = "from_reader"

\* the positions of a line where a field begins
FieldStarts(content) ==
    {i \in DOMAIN content :
        /\ content[i] \notin {" ", "\t"}
        /\ i = 1 \/ content[i - 1] \in {" ", "\t"}}

\* the line is blank, or its first character that is not whitespace is '#'
Skipped(ln) ==
    /\ ln.read_ok
    /\ \/ FieldStarts(ln.content) = {}
       \/ \E i \in FieldStarts(ln.content) :
            /\ \A j \in FieldStarts(ln.content) : i <= j
            /\ ln.content[i] = "#"

\* the line is a record with fewer than two fields
Short(ln) ==
    /\ ln.read_ok
    /\ ~Skipped(ln)
    /\ Cardinality(FieldStarts(ln.content)) < 2

\* the line fails of itself with another error: it cannot be read, or it is a
\* record one of whose fields does not parse
FailsOtherwise(ln) ==
    \/ ~ln.read_ok
    \/ /\ ~Skipped(ln) /\ ~Short(ln)
       /\ \E i \in FieldStarts(ln.content) : ln.content[i] = "!"

\* line n of the input is where reading stops with InsufficientFields: it is
\* the first line with fewer than two fields, and the lines before it are
\* skipped or parse
FirstShort(lines, n) ==
    /\ n \in DOMAIN lines
    /\ Short(lines[n])
    /\ \A m \in 1..(n - 1) : ~Short(lines[m]) /\ ~FailsOtherwise(lines[m])

\* C23: from_reader fails with InsufficientFields{line} at the first line
\* that is neither blank nor a comment and has fewer than two fields, line
\* being its 1-based number among all the lines of the input; an Err carries
\* no document, and the lines after the failing one play no part (the
\* result is that of the input cut after the failing line)
C23_InsufficientFieldsLine ==
    CmReturned =>
        LET lines == argument.lines
            result == returned.result
        IN  /\ \A n \in DOMAIN lines :
                  FirstShort(lines, n) <=>
                      (result.err = "InsufficientFields" /\ result.line = n)
            /\ result.err = "InsufficientFields" => result.line \in DOMAIN lines
            /\ result.err # "" =>
                  /\ result.records = <<>>
                  /\ result.line \in DOMAIN lines
                  /\ DocumentFromReader(SubSeq(lines, 1, result.line)) = result

\* the one-field record on line 3 is reported as line 3 though lines 1 and 2
\* are a comment and a blank line
C23_Witness ==
    /\ CmReturned
    /\ Len(argument.lines) = 3
    /\ Skipped(argument.lines[1])
    /\ Skipped(argument.lines[2])
    /\ argument.lines[3] = Line(<<"k">>)
    /\ returned.result = DocumentErr("InsufficientFields", 3, 0)

\* the key and the values of a record line
RecordKey(ln) == Head(SplitAsciiWhitespace(ln.content))
RecordValues(ln) == Tail(SplitAsciiWhitespace(ln.content))

\* the numbers of the lines of the input that hold the key
Occurrences(lines, key) ==
    {n \in DOMAIN lines : ~Skipped(lines[n]) /\ RecordKey(lines[n]) = key}

Least(numbers) == CHOOSE n \in numbers : \A m \in numbers : n <= m
Greatest(numbers) == CHOOSE n \in numbers : \A m \in numbers : m <= n

\* C24: the parsed document has exactly one record per distinct key of the
\* input, with the values of the key's last occurrence, and its records
\* stand in the order of the keys' first occurrences
C24_DuplicateKeys ==
    (CmReturned /\ returned.result.err = "") =>
        LET lines == argument.lines
            records == returned.result.records
        IN  /\ \A i, j \in DOMAIN records :
                  records[i].key = records[j].key => i = j
            /\ {records[i].key : i \in DOMAIN records} =
                  {RecordKey(lines[n]) : n \in {m \in DOMAIN lines : ~Skipped(lines[m])}}
            /\ \A i \in DOMAIN records :
                  records[i].values =
                      RecordValues(lines[Greatest(Occurrences(lines, records[i].key))])
            /\ \A i, j \in DOMAIN records :
                  i < j => Least(Occurrences(lines, records[i].key))
                           < Least(Occurrences(lines, records[j].key))

\* k, then j, then k again with other values: k stays first and holds the
\* values of line 3
C24_Witness ==
    /\ CmReturned
    /\ argument.lines = <<Line(<<"k", " ", "v">>), Line(<<"j", " ", "w">>),
                          Line(<<"k", " ", "w", " ", "v">>)>>
    /\ returned.result.records =
          <<[key |-> <<"k">>, values |-> <<<<"w">>, <<"v">>>>],
            [key |-> <<"j">>, values |-> <<<<"w">>>>]>>

-----------------------------------------------------------------------------
(* src/capslock/src/caps.rs: the strum names of Capability and CapabilityType,
   formatted (Display, Serialize) and parsed (FromStr, Deserialize) *)

\* Result<_, strum::ParseError>; Deserialize turns the Err into unknown_variant
ParseOk(value) == [ok |-> TRUE, value |-> value]
VariantNotFound == [ok |-> FALSE, value |-> ""]

\* a from_str that takes every unknown name for Capability::Unspecified
CapabilityFromStrLenient(text) ==
    CASE text = "CAPABILITY_UNSPECIFIED" -> ParseOk("UNSPECIFIED")
      [] text = "CAPABILITY_SAFE" -> ParseOk("SAFE")
      [] text = "CAPABILITY_FILES" -> ParseOk("FILES")
      [] text = "CAPABILITY_NETWORK" -> ParseOk("NETWORK")
      [] text = "CAPABILITY_RUNTIME" -> ParseOk("RUNTIME")
      [] text = "CAPABILITY_READ_SYSTEM_STATE" -> ParseOk("READ_SYSTEM_STATE")
      [] text = "CAPABILITY_MODIFY_SYSTEM_STATE" -> ParseOk("MODIFY_SYSTEM_STATE")
      [] text = "CAPABILITY_OPERATING_SYSTEM" -> ParseOk("OPERATING_SYSTEM")
      [] text = "CAPABILITY_SYSTEM_CALLS" -> ParseOk("SYSTEM_CALLS")
      [] text = "CAPABILITY_ARBITRARY_EXECUTION" -> ParseOk("ARBITRARY_EXECUTION")
      [] text = "CAPABILITY_CGO" -> ParseOk("CGO")
      [] text = "CAPABILITY_UNANALYZED" -> ParseOk("UNANALYZED")
      [] text = "CAPABILITY_UNSAFE_POINTER" -> ParseOk("UNSAFE_POINTER")
      [] text = "CAPABILITY_REFLECT" -> ParseOk("REFLECT")
      [] text = "CAPABILITY_EXEC" -> ParseOk("EXEC")
      [] text = "CAPABILITY_DYNAMIC_LOADING" -> ParseOk("DYNAMIC_LOADING")
      [] text = "CAPABILITY_INSTRUMENTATION" -> ParseOk("INSTRUMENTATION")
      [] text = "CAPABILITY_NATIVE_CODE" -> ParseOk("NATIVE_CODE")
      [] OTHER -> ParseOk("UNSPECIFIED")

\* #[derive(EnumString)] for Capability: <Capability as FromStr>::from_str
CapabilityFromStr(text) ==
    CASE text = "CAPABILITY_UNSPECIFIED" -> ParseOk("UNSPECIFIED")
      [] text = "CAPABILITY_SAFE" -> ParseOk("SAFE")
      [] text = "CAPABILITY_FILES" -> ParseOk("FILES")
      [] text = "CAPABILITY_NETWORK" -> ParseOk("NETWORK")
      [] text = "CAPABILITY_RUNTIME" -> ParseOk("RUNTIME")
      [] text = "CAPABILITY_READ_SYSTEM_STATE" -> ParseOk("READ_SYSTEM_STATE")
      [] text = "CAPABILITY_MODIFY_SYSTEM_STATE" -> ParseOk("MODIFY_SYSTEM_STATE")
      [] text = "CAPABILITY_OPERATING_SYSTEM" -> ParseOk("OPERATING_SYSTEM")
      [] text = "CAPABILITY_SYSTEM_CALLS" -> ParseOk("SYSTEM_CALLS")
      [] text = "CAPABILITY_ARBITRARY_EXECUTION" -> ParseOk("ARBITRARY_EXECUTION")
      [] text = "CAPABILITY_CGO" -> ParseOk("CGO")
      [] text = "CAPABILITY_UNANALYZED" -> ParseOk("UNANALYZED")
      [] text = "CAPABILITY_UNSAFE_POINTER" -> ParseOk("UNSAFE_POINTER")
      [] text = "CAPABILITY_REFLECT" -> ParseOk("REFLECT")
      [] text = "CAPABILITY_EXEC" -> ParseOk("EXEC")
      [] text = "CAPABILITY_DYNAMIC_LOADING" -> ParseOk("DYNAMIC_LOADING")
      [] text = "CAPABILITY_INSTRUMENTATION" -> ParseOk("INSTRUMENTATION")
      [] text = "CAPABILITY_NATIVE_CODE" -> ParseOk("NATIVE_CODE")
      [] OTHER -> VariantNotFound

\* #[derive(EnumString)] for CapabilityType
CapabilityTypeFromStr(text) ==
    CASE text = "CAPABILITY_TYPE_UNSPECIFIED" -> ParseOk("Unspecified")
      [] text = "CAPABILITY_TYPE_DIRECT" -> ParseOk("Direct")
      [] text = "CAPABILITY_TYPE_TRANSITIVE" -> ParseOk("Transitive")
      [] OTHER -> VariantNotFound

\* strings that are no strum name of the enum they are parsed as: names
\* without the prefix, in another case, with blanks, of the other enum, of
\* the Rust variants, and the empty string
OtherTexts ==
    {"", "FILES", "Files", "capability_files", "CAPABILITY_FILES ",
     " CAPABILITY_FILES", "CAPABILITY_", "CAPABILITY_FILE", "CAPABILITY_FILESYSTEM",
     "Capability::Files", "ReadSystemState", "CAPABILITY_READSYSTEMSTATE",
     "CAPABILITY_DIRECT", "CAPABILITY_TRANSITIVE", "Direct", "direct",
     "CAPABILITY_TYPE_", "CAPABILITY_TYPE_direct", "CAPABILITY_TYPE_INDIRECT",
     "0", "1", "2"}

CapabilityNames == {SerializeCapability(c) : c \in Capability}
CapabilityTypeNames == {SerializeCapabilityType(t) : t \in CapabilityType}

\* the calls: two values of one enum are formatted and the strings parsed
\* back, or a string is parsed as a value of either enum
CapsArguments ==
    {[fn |-> "capability", a |-> a, b |-> b] : a, b \in Capability}
    \cup {[fn |-> "capability_type", a |-> a, b |-> b] : a, b \in CapabilityType}
    \cup {[fn |-> "from_str", text |-> text] :
            text \in OtherTexts \cup CapabilityNames \cup CapabilityTypeNames}

CapsInit ==
    /\ argument \in CapsArguments
    /\ returned = NoCall
    /\ last = NoLast
    /\ BubbleIdle
    /\ TracerIdle
    /\ ReportIdle
    /\ SeccompIdle

\* to_string, then from_str, of two Capability values
CapsCapabilityRoundTrip ==
    /\ returned = NoCall
    /\ argument.fn = "capability"
    /\ returned' = [fn |-> "capability",
                    text_a |-> SerializeCapability(argument.a),
                    text_b |-> SerializeCapability(argument.b),
                    parsed_a |-> CapabilityFromStr(SerializeCapability(argument.a)),
                    parsed_b |-> CapabilityFromStr(SerializeCapability(argument.b))]
    /\ UNCHANGED <<argument, last>>
    /\ UNCHANGED <<bubbleVars, tracerVars, reportVars, seccompVars>>

\* to_string, then from_str, of two CapabilityType values
CapsTypeRoundTrip ==
    /\ returned = NoCall
    /\ argument.fn = "capability_type"
    /\ returned' = [fn |-> "capability_type",
                    text_a |-> SerializeCapabilityType(argument.a),
                    text_b |-> SerializeCapabilityType(argument.b),
                    parsed_a |-> CapabilityTypeFromStr(SerializeCapabilityType(argument.a)),
                    parsed_b |-> CapabilityTypeFromStr(SerializeCapabilityType(argument.b))]
    /\ UNCHANGED <<argument, last>>
    /\ UNCHANGED <<bubbleVars, tracerVars, reportVars, seccompVars>>

\* from_str of a string, as a Capability and as a CapabilityType
CapsFromStr ==
    /\ returned = NoCall
    /\ argument.fn = "from_str"
    /\ returned' = [fn |-> "from_str",
                    capability |-> CapabilityFromStr(argument.text),
                    capability_type |-> CapabilityTypeFromStr(argument.text)]
    /\ UNCHANGED <<argument, last>>
    /\ UNCHANGED <<bubbleVars, tracerVars, reportVars, seccompVars>>

CapsNext ==
    \/ CapsCapabilityRoundTrip
    \/ CapsTypeRoundTrip
    \/ CapsFromStr

SpecCaps == CapsInit /\ [][CapsNext]_vars

\* the canonical names as the format's documentation lists them
CanonicalCapabilityNames ==
    {"CAPABILITY_UNSPECIFIED", "CAPABILITY_SAFE", "CAPABILITY_FILES",
     "CAPABILITY_NETWORK", "CAPABILITY_RUNTIME", "CAPABILITY_READ_SYSTEM_STATE",
     "CAPABILITY_MODIFY_SYSTEM_STATE", "CAPABILITY_OPERATING_SYSTEM",
     "CAPABILITY_SYSTEM_CALLS", "CAPABILITY_ARBITRARY_EXECUTION", "CAPABILITY_CGO",
     "CAPABILITY_UNANALYZED", "CAPABILITY_UNSAFE_POINTER", "CAPABILITY_REFLECT",
     "CAPABILITY_EXEC", "CAPABILITY_DYNAMIC_LOADING", "CAPABILITY_INSTRUMENTATION",
     "CAPABILITY_NATIVE_CODE"}

CanonicalTypeNames ==
    {"CAPABILITY_TYPE_UNSPECIFIED", "CAPABILITY_TYPE_DIRECT",
     "CAPABILITY_TYPE_TRANSITIVE"}

\* C25: for each Capability and each CapabilityType value, parsing the
\* string that formatting gives yields the value; distinct values have
\* distinct strings; a string that is not a canonical name of the enum fails
\* to parse
C25_CapsRoundTrip ==
    /\ Cardinality(Capability) = 18 /\ Cardinality(CapabilityType) = 3
    /\ (returned # NoCall /\ returned.fn \in {"capability", "capability_type"}) =>
          /\ returned.parsed_a = [ok |-> TRUE, value |-> argument.a]
          /\ returned.parsed_b = [ok |-> TRUE, value |-> argument.b]
          /\ argument.a # argument.b => returned.text_a # returned.text_b
          /\ returned.text_a \in (IF returned.fn = "capability"
                                  THEN CanonicalCapabilityNames
                                  ELSE CanonicalTypeNames)
    /\ (returned # NoCall /\ returned.fn = "from_str") =>
          /\ argument.text \notin CanonicalCapabilityNames => ~returned.capability.ok
          /\ argument.text \notin CanonicalTypeNames => ~returned.capability_type.ok
          /\ argument.text \in CanonicalCapabilityNames => returned.capability.ok
          /\ argument.text \in CanonicalTypeNames => returned.capability_type.ok

\* READ_SYSTEM_STATE and MODIFY_SYSTEM_STATE went through their names and back
C25_Witness ==
    /\ returned # NoCall
    /\ returned.fn = "capability"
    /\ argument.a = "READ_SYSTEM_STATE" /\ argument.b = "MODIFY_SYSTEM_STATE"
    /\ returned.text_a = "CAPABILITY_READ_SYSTEM_STATE"
    /\ returned.parsed_a.value = "READ_SYSTEM_STATE"

-----------------------------------------------------------------------------
(* src/src/function.rs: parse_rust_function_name.  A demangled name is a
   sequence of characters *)

MaxPieces == 4

\* str::strip_prefix(char): Some(rest) when the text begins with the character
StripPrefix(text, c) ==
    IF text # <<>> /\ Head(text) = c
    THEN [some |-> TRUE, rest |-> Tail(text)]
    ELSE [some |-> FALSE, rest |-> <<>>]

\* str::ends_with(char)
EndsWith(text, c) == text # <<>> /\ text[Len(text)] = c

\* whether the pattern stands in the text at position i
MatchesAt(text, pat, i) ==
    /\ i >= 1
    /\ i + Len(pat) - 1 <= Len(text)
    /\ SubSeq(text, i, i + Len(pat) - 1) = pat

\* Option<(&str, &str)>
NoSplit == [some |-> FALSE, left |-> <<>>, right |-> <<>>]
SplitAt(text, pat, i) ==
    [some |-> TRUE,
     left |-> SubSeq(text, 1, i - 1),
     right |-> SubSeq(text, i + Len(pat), Len(text))]

RECURSIVE SplitOnceFrom(_, _, _)
\* the search of str::split_once: the matches are tried from the front
SplitOnceFrom(text, pat, i) ==
    IF i + Len(pat) - 1 > Len(text) THEN NoSplit
    ELSE IF MatchesAt(text, pat, i) THEN SplitAt(text, pat, i)
    ELSE SplitOnceFrom(text, pat, i + 1)

\* str::split_once(pat): split at the first occurrence of the pattern
SplitOnce(text, pat) == SplitOnceFrom(text, pat, 1)

RECURSIVE RSplitOnceFrom(_, _, _)
\* the search of str::rsplit_once: the matches are tried from the back
RSplitOnceFrom(text, pat, i) ==
    IF i < 1 THEN NoSplit
    ELSE IF MatchesAt(text, pat, i) THEN SplitAt(text, pat, i)
    ELSE RSplitOnceFrom(text, pat, i - 1)

\* an rsplit_once that splits at the first occurrence
RSplitOnceFirst(text, pat) == SplitOnceFrom(text, pat, 1)

\* str::rsplit_once(pat): split at the last occurrence of the pattern
RSplitOnce(text, pat) == RSplitOnceFrom(text, pat, Len(text) - Len(pat) + 1)

\* enum RustFunctionName and the two errors of enum Error that the parser gives
TraitMethod(trait_, type_, method) ==
    [ok |-> TRUE, kind |-> "TraitMethod", trait_ |-> trait_, type_ |-> type_,
     method |-> method]
StructMethod(type_, method) ==
    [ok |-> TRUE, kind |-> "StructMethod", type_ |-> type_, method |-> method]
Bare(text) == [ok |-> TRUE, kind |-> "Bare", function |-> text]
MalformedMethod(text) == [ok |-> FALSE, kind |-> "MalformedMethod", function |-> text]
MalformedTraitMethod(text) ==
    [ok |-> FALSE, kind |-> "MalformedTraitMethod", function |-> text]

PatAs == <<" ", "a", "s", " ">>
PatCloseColons == <<">", ":", ":">>
PatColons == <<":", ":">>

\* parse_rust_function_name
ParseRustFunctionName(text) ==
    LET stripped == StripPrefix(text, "<") IN
    IF stripped.some
    THEN LET as == SplitOnce(stripped.rest, PatAs) IN
         IF as.some
         THEN LET rem == RSplitOnce(as.right, PatCloseColons) IN
              IF rem.some
              THEN TraitMethod(rem.left, as.left, rem.right)
              ELSE MalformedTraitMethod(stripped.rest)
         ELSE LET tm == RSplitOnce(stripped.rest, PatCloseColons) IN
              IF tm.some
              THEN StructMethod(tm.left, tm.right)
              ELSE MalformedMethod(stripped.rest)
    ELSE LET tm == RSplitOnce(text, PatColons) IN
         IF ~EndsWith(text, ">") /\ tm.some
         THEN StructMethod(tm.left, tm.right)
         ELSE Bare(text)

\* the fragments that the demangled names are put together from
NamePrefixes ==
    {<<>>, <<"<">>, <<"<", "T">>, <<"T", ":", ":">>,
     <<"<", "T", " ", "a", "s", " ", "m">>}
NamePieces ==
    {<<"T">>, <<"m">>, <<":">>, <<":", ":">>, <<">">>, <<"<">>, PatAs,
     PatCloseColons}

RECURSIVE Concat(_)
Concat(pieces) ==
    IF pieces = <<>> THEN <<>> ELSE Head(pieces) \o Concat(Tail(pieces))

DemangledNames ==
    {prefix \o Concat(pieces) :
        prefix \in NamePrefixes,
        pieces \in UNION {[1..n -> NamePieces] : n \in 0..MaxPieces}}

NameInit ==
    /\ argument \in {[fn |-> "parse_rust_function_name", function |-> text] :
                        text \in DemangledNames}
    /\ returned = NoCall
    /\ last = NoLast
    /\ BubbleIdle
    /\ TracerIdle
    /\ ReportIdle
    /\ SeccompIdle

NameParse ==
    /\ returned = NoCall
    /\ returned' = [fn |-> "parse_rust_function_name",
                    result |-> ParseRustFunctionName(argument.function)]
    /\ UNCHANGED <<argument, last>>
    /\ UNCHANGED <<bubbleVars, tracerVars, reportVars, seccompVars>>

NameNext == NameParse

SpecName == NameInit /\ [][NameNext]_vars

\* the positions where the pattern occurs in the text
Occurs(text, pat) ==
    {i \in 1..Len(text) : i + Len(pat) - 1 <= Len(text)
                           /\ SubSeq(text, i, i + Len(pat) - 1) = pat}
First(set) == CHOOSE i \in set : \A j \in set : i <= j
Last(set) == CHOOSE i \in set : \A j \in set : j <= i
Between(text, from, to) == SubSeq(text, from, to)

\* the outcome that the description of the parser gives for a name
Described(text) ==
    LET as == Occurs(text, PatAs)
        close == Occurs(text, PatCloseColons)
        colons == Occurs(text, PatColons)
        n == Len(text)
    IN  IF text # <<>> /\ text[1] = "<"
        THEN IF as # {}
             THEN LET a == First(as)
                      after == {j \in close : j >= a + 4}
                  IN  IF after # {}
                      THEN [kind |-> "TraitMethod",
                            type_ |-> Between(text, 2, a - 1),
                            trait_ |-> Between(text, a + 4, Last(after) - 1),
                            method |-> Between(text, Last(after) + 3, n)]
                      ELSE [kind |-> "MalformedTraitMethod"]
             ELSE IF close # {}
                  THEN [kind |-> "StructMethod",
                        type_ |-> Between(text, 2, Last(close) - 1),
                        method |-> Between(text, Last(close) + 3, n)]
                  ELSE [kind |-> "MalformedMethod"]
        ELSE IF (text = <<>> \/ text[n] # ">") /\ colons # {}
             THEN [kind |-> "StructMethod",
                   type_ |-> Between(text, 1, Last(colons) - 1),
                   method |-> Between(text, Last(colons) + 2, n)]
             ELSE [kind |-> "Bare", function |-> text]

NameReturned == returned # NoCall /\ returned.fn = "parse_rust_function_name"

\* C26: parse_rust_function_name gives each demangled name the one outcome
\* of its description: TraitMethod split at the first " as " and the last
\* ">::" for a name that begins with "<" and has " as " (MalformedTraitMethod
\* when no ">::" follows), StructMethod split at the last ">::" for another
\* name that begins with "<" (MalformedMethod when there is none),
\* StructMethod split at the last "::" for a name that does not end in ">"
\* and has "::", Bare for the rest; a name that does not begin with "<"
\* never fails
C26_ParseRustFunctionName ==
    NameReturned =>
        LET text == argument.function
            result == returned.result
            want == Described(text)
        IN  /\ result.kind = want.kind
            /\ result.ok = (want.kind \notin {"MalformedMethod", "MalformedTraitMethod"})
            /\ want.kind = "TraitMethod" =>
                  /\ result.type_ = want.type_
                  /\ result.trait_ = want.trait_
                  /\ result.method = want.method
            /\ want.kind = "StructMethod" =>
                  /\ result.type_ = want.type_
                  /\ result.method = want.method
            /\ want.kind = "Bare" => result.function = text
            /\ ~StartsWith(text, "<") => result.ok

\* "<T as m>::T>::m" was parsed: the trait runs to the last ">::"
C26_Witness ==
    /\ NameReturned
    /\ argument.function =
          <<"<", "T", " ", "a", "s", " ", "m", ">", ":", ":", "T", ">", ":", ":", "m">>
    /\ returned.result =
          TraitMethod(<<"m", ">", ":", ":", "T">>, <<"T">>, <<"m">>)

\* "T::<T>::m" was parsed: the type keeps the impl sigil
C26_WitnessSigil ==
    /\ NameReturned
    /\ argument.function = <<"T", ":", ":", "<", "T", ">", ":", ":", "m">>
    /\ returned.result = StructMethod(<<"T", ":", ":", "<", "T", ">">>, <<"m">>)

-----------------------------------------------------------------------------
(* src/src/static/bitcode.rs: Bitcode::from_bc_path bubbles the capabilities
   of the function map it built, Bitcode::into_report makes the report *)

\* the path of the bitcode file
BitcodePath == <<"module", ".bc">>

\* direct_fn_caps: the capabilities a function gets when the map is built
BitcodeCapMaps ==
    {NoCaps, CapMap({"FILES"}, "Direct"), CapMap({"NETWORK", "EXEC"}, "Direct")}

RECURSIVE FoldCapabilitiesReplace(_, _)
\* a fold whose accumulator is overwritten by each function's keys
FoldCapabilitiesReplace(fs, acc) ==
    IF fs = <<>> THEN acc
    ELSE FoldCapabilitiesReplace(Tail(fs), Keys(Head(fs)))

RECURSIVE FoldCapabilities(_, _)
\* functions.iter().fold(BTreeSet::new(), |mut acc, func| {
\*     acc.extend(func.capabilities.keys().copied()); acc })
FoldCapabilities(fs, acc) ==
    IF fs = <<>> THEN acc
    ELSE FoldCapabilities(Tail(fs), acc \cup Keys(Head(fs)))

\* Bitcode::into_report
BitcodeReport(path, fm, g) ==
    LET fs == fm.functions IN
    [path |-> path,
     capabilities |-> FoldCapabilities(fs, {}),
     functions |-> fs,
     edges |-> g]

\* Bitcode::from_bc_path, after build_function_map and build_call_graph
BitcodeInit ==
    \E capmaps \in [1..NumFns -> BitcodeCapMaps], g \in EdgeSeqs(NumFns, MaxEdges) :
        BubbleStart(MapOf(capmaps), g)

\* into_report on the Bitcode that from_bc_path returned
BitcodeIntoReport ==
    /\ pc = "done"
    /\ pc' = "reported"
    /\ process' = BitcodeReport(BitcodePath, functions, call_graph)
    /\ UNCHANGED <<functions, call_graph, before, edge_idx, changed, last>>
    /\ UNCHANGED <<report_function, serialized>>
    /\ UNCHANGED <<tracerVars, seccompVars, callVars>>

BitcodeNext ==
    \/ BubbleWhile
    \/ BubbleFor
    \/ BubbleForEnd
    \/ BitcodeIntoReport

SpecBitcode == BitcodeInit /\ [][BitcodeNext]_vars

\* C27: in the static analyzer's report the process-level capability set is
\* the union of the keys of the capability maps of the functions as they are
\* after bubbling, which are the functions of the report: every capability of
\* a function is at process level, and every process-level capability is held
\* by some function
C27_ProcessCapabilities ==
    pc = "reported" =>
        /\ process.functions = functions.functions
        /\ \A i \in DOMAIN process.functions :
              Keys(process.functions[i]) \subseteq process.capabilities
        /\ \A c \in process.capabilities :
              \E i \in DOMAIN process.functions : c \in Keys(process.functions[i])

\* the report was made of a map whose first function holds only FILES, which
\* it got by bubbling, while another function holds NETWORK and EXEC
C27_Witness ==
    /\ pc = "reported"
    /\ Keys(before[1]) = {}
    /\ process.functions[1].capabilities = CapMap({"FILES"}, "Transitive")
    /\ process.capabilities = {"FILES", "NETWORK", "EXEC"}

-----------------------------------------------------------------------------
(* The call-graph edges of the attribution loop of handle_syscall_exit *)

EdgeSyscalls == {Syscall("read", 0, {}, <<>>)}

\* the stacks of the runs: one to three named frames, a frame twice, and a
\* frame whose name does not parse at the bottom and between two others
EdgeUnwinds ==
    {Unwind(FALSE, <<>>, FALSE),
     Unwind(TRUE, <<"f">>, FALSE),
     Unwind(TRUE, <<"f", "g">>, FALSE),
     Unwind(TRUE, <<"g", "f">>, FALSE),
     Unwind(TRUE, <<"f", "g", "h">>, FALSE),
     Unwind(TRUE, <<"f", "f">>, FALSE),
     Unwind(TRUE, <<"<bad>", "f">>, FALSE),
     Unwind(TRUE, <<"h", "<bad>", "f">>, FALSE),
     Unwind(TRUE, <<"h", "g">>, TRUE)}

EdgeInit == TracerInit(TRUE, FALSE)

EdgeNext ==
    \/ EvClone
    \/ EvExited
    \/ EvSyscallEntry(EdgeSyscalls)
    \/ EvSyscallExit(EdgeUnwinds)

SpecEdges == EdgeInit /\ [][EdgeNext]_vars

\* the frames of a walk whose names parse, innermost first
Parsed(names) == SelectSeq(names, LAMBDA n : n \notin MalformedNames)

\* the step is a successful exit of p whose frames were attributed
AttributedExitOf(p) ==
    /\ last'.op = "SyscallExit"
    /\ last'.pid = p
    /\ ~last'.is_error
    /\ last'.err = ""
    /\ last'.unwind.setup_ok
    /\ ~last'.unwind.ip_fail
    /\ ~processes'.active[p].waiting_for_start

\* the edges from each parsed frame to the parsed frame next inside it
FrameEdges(ids, named) ==
    {<<ids[named[i + 1]], ids[named[i]]>> : i \in 1..(Len(named) - 1)}

EdgesStep ==
    \A p \in DOMAIN processes.active \cap DOMAIN processes'.active :
        LET old == processes.active[p].call_graph
            new == processes'.active[p].call_graph
            named == Parsed(last'.unwind.names)
            want == IF AttributedExitOf(p)
                    THEN FrameEdges(processes'.active[p].functions.ids, named)
                    ELSE {}
        IN  /\ EdgeSet(new) = EdgeSet(old) \cup want
            /\ Injective(new)

\* C28: an attributed syscall exit with parsed frames n1 (innermost) .. nk
\* leaves the call graph with its earlier edges and the edges n2->n1, ..,
\* nk->n(k-1) between the functions of the frames and no others: none for a
\* single frame, and the neighbours of a frame that does not parse are
\* linked; no edge is in the graph twice
C28_CallGraphEdges == [][EdgesStep]_vars

\* an exit with the frames h, <bad>, f was attributed after one with the
\* frames f, g, h: the graph holds g->f, h->g and f->h, each once
C28_Witness ==
    /\ last.op = "SyscallExit"
    /\ last.unwind.names = <<"h", "<bad>", "f">>
    /\ LET state == processes.active[last.pid]
           ids == state.functions.ids
       IN  /\ DOMAIN ids = {"f", "g", "h"}
           /\ state.call_graph =
                 <<<<ids["g"], ids["f"]>>, <<ids["h"], ids["g"]>>, <<ids["f"], ids["h"]>>>>

\* an exit with the frames f, g was attributed twice: one edge g->f
C28_WitnessAgain ==
    /\ last.op = "SyscallExit"
    /\ last.unwind.names = <<"f", "g">>
    /\ nevents >= 4
    /\ LET state == processes.active[last.pid]
       IN  /\ DOMAIN state.functions.ids = {"f", "g"}
           /\ Len(state.call_graph) = 1

-----------------------------------------------------------------------------
(* Syscalls that fail: the entry is handled, the exit is dropped *)

FailSyscalls ==
    {Syscall("read", 0, {}, <<>>),
     Syscall("open", 0, {}, <<"/", "f">>),
     Syscall("socket", 0, {"SOCK_STREAM"}, <<>>),
     Syscall("chdir", 0, {}, <<"/", "tmp">>),
     Syscall("execve", 0, {}, <<"/", "bin", "x">>),
     Syscall("close", 3, {}, <<>>),
     Syscall("ioctl", 4, {}, <<>>),
     Syscall("openat", AtFdcwd, {}, <<"r">>),
     Syscall("openat", 3, {}, <<"/", "a">>),
     Syscall("openat", 3, {}, <<"r">>),
     Syscall("openat2", 4, {"O_CLOEXEC"}, <<"r">>)}

FailUnwinds == {Unwind(TRUE, <<"f", "_start">>, FALSE)}

FailInit == TracerInit(TRUE, FALSE)

\* Event::SyscallEntry as in EvSyscallEntry; the record of the event keeps the
\* state that the process had when the event arrived
EvSyscallEntryKeep(syscalls) ==
    /\ nevents < MaxEvents
    /\ \E pid \in DOMAIN processes.active, syscall \in syscalls, args_ok \in BOOLEAN :
          \E procfs \in (IF EntryReadsProcfs(processes.active[pid], syscall, args_ok)
                         THEN ProcfsOutcomes ELSE {ProcfsErr}) :
          LET r == HandleSyscallEntry(processes, pid, syscall, args_ok, procfs)
          IN  /\ ~userdata[pid].in_syscall
              /\ args_ok \/ syscall.nr \in ReadsMemory
              /\ processes' = r.map
              /\ userdata' = [userdata EXCEPT ![pid] =
                    [in_syscall |-> TRUE, nr |-> syscall.nr, meta |-> r.userdata]]
              /\ last' = [op |-> "SyscallEntry", pid |-> pid, nr |-> syscall.nr,
                          err |-> r.err, syscall |-> syscall,
                          state |-> processes.active[pid]]
    /\ nevents' = nevents + 1
    /\ UNCHANGED include_syscalls
    /\ UNCHANGED <<bubbleVars, reportVars, seccompVars, callVars>>

FailNext ==
    \/ EvSyscallEntryKeep(FailSyscalls)
    \/ EvSyscallExit(FailUnwinds)

SpecFail == FailInit /\ [][FailNext]_vars

\* the step is the error exit of the syscall whose entry was the event before
ErrorExitStep ==
    /\ last.op = "SyscallEntry"
    /\ last'.op = "SyscallExit"
    /\ last'.pid = last.pid
    /\ last'.is_error

\* the entry resolved a relative path against a descriptor that the FD table
\* did not hold and that procfs described
EntryInferred ==
    /\ last.nr \in {"openat", "openat2"}
    /\ ~IsAbsolute(last.syscall.path)
    /\ last.syscall.fd # AtFdcwd
    /\ last.syscall.fd \notin DOMAIN last.state.fds
    /\ last.err \notin {"Args", "Procfs"}

ErrorPairUnchanged ==
    ErrorExitStep => processes'.active[last.pid] = last.state

ErrorPairKeepsButInferred ==
    ErrorExitStep =>
        LET old == last.state
            new == processes'.active[last.pid]
        IN  /\ new.caps = old.caps
            /\ new.wd = old.wd
            /\ new.execs = old.execs
            /\ new.functions = old.functions
            /\ new.call_graph = old.call_graph
            /\ new.waiting_for_start = old.waiting_for_start
            /\ \A fd \in DOMAIN old.fds : fd \in DOMAIN new.fds /\ new.fds[fd] = old.fds[fd]
            /\ DOMAIN new.fds \ DOMAIN old.fds =
                  IF EntryInferred THEN {last.syscall.fd} ELSE {}

\* C29: after the error exit of a syscall the state of its process is
\* exactly the state it had before the syscall's entry event
C29_ErrorPairLeavesState == [][ErrorPairUnchanged]_vars

\* C29 (amended): after the error exit of a syscall the capability set,
\* working directory, exec queue, function map and call graph of its process
\* are as before the entry event, and so is every entry of the FD table; the
\* table has one more entry exactly when the entry event was an openat or
\* openat2 with a relative path and a dirfd other than AT_FDCWD that the table
\* did not hold and procfs described: the entry of that dirfd
C29_ErrorPairKeepsButInferred == [][ErrorPairKeepsButInferred]_vars

\* an openat of "r" against descriptor 3, unknown to the table, has failed:
\* the table holds 3 as the directory that procfs named
C29_Witness ==
    /\ last.op = "SyscallExit"
    /\ last.is_error
    /\ last.nr = "openat"
    /\ nevents = 2
    /\ processes.active[last.pid].fds = (3 :> FdMeta({}, TypeDirectory(<<"/", "d">>)))

\* a chdir has failed after an open succeeded: the working directory and the
\* table are those of before the chdir
C29_WitnessChdir ==
    /\ last.op = "SyscallExit"
    /\ last.is_error
    /\ last.nr = "chdir"
    /\ nevents = 4
    /\ processes.active[last.pid].wd = InitWd
    /\ DOMAIN processes.active[last.pid].fds # {}

-----------------------------------------------------------------------------
(* The working directory under chdir with absolute and relative arguments *)

ChdirSyscalls ==
    {Syscall("chdir", 0, {}, <<"/", "tmp">>),
     Syscall("chdir", 0, {}, <<"sub">>),
     Syscall("openat", AtFdcwd, {}, <<"r">>),
     Syscall("openat", AtFdcwd, {}, <<"/", "a">>)}

ChdirUnwinds == {Unwind(TRUE, <<"f", "_start">>, FALSE)}

ChdirInit == TracerInit(TRUE, FALSE)

ChdirNext ==
    \/ EvClone
    \/ EvExited
    \/ EvSyscallEntry(ChdirSyscalls)
    \/ EvSyscallExit(ChdirUnwinds)

SpecChdir == ChdirInit /\ [][ChdirNext]_vars

\* the step is the successful exit of a chdir of an active process whose
\* argument the tracer read at the entry
ChdirExitStep ==
    /\ last'.op = "SyscallExit"
    /\ last'.nr = "chdir"
    /\ ~last'.is_error
    /\ last'.pid \in DOMAIN processes.active
    /\ userdata[last'.pid].meta # <<>>

\* the working directory after a chdir is the argument resolved against the
\* working directory before it
ChdirResolvesStep ==
    ChdirExitStep =>
        LET old == processes.active[last'.pid].wd
            path == userdata[last'.pid].meta[1].typed.path
        IN  processes'.active[last'.pid].wd =
                IF path[1] = "/" THEN path ELSE old \o path

\* every working directory is absolute after the step
WdAbsoluteStep ==
    /\ \A p \in DOMAIN processes'.active : processes'.active[p].wd[1] = "/"
    /\ \A i \in DOMAIN processes'.inactive : processes'.inactive[i][2].wd[1] = "/"

\* an openat with AT_FDCWD handled by the step attached an absolute path
OpenatAbsoluteStep ==
    (/\ last'.op = "SyscallEntry"
     /\ last'.nr = "openat"
     /\ last'.err = ""
     /\ last'.syscall.fd = AtFdcwd) =>
        userdata'[last'.pid].meta[1].typed.meta.ty.path[1] = "/"

\* C30: a successful chdir sets the working directory of its process to the
\* argument resolved against the working directory it had; starting from an
\* absolute working directory, every process's working directory is absolute
\* after every event, and an openat with AT_FDCWD resolves to an absolute path
C30_ChdirResolved ==
    [][ChdirResolvesStep /\ WdAbsoluteStep /\ OpenatAbsoluteStep]_vars

-----------------------------------------------------------------------------
(* The FD table under the syscalls that create and close descriptors *)

\* the rows of the syscall table for the syscalls of these runs
FdDocument ==
    [pipe |-> <<"FILES">>, pipe2 |-> <<"FILES">>, open |-> <<"FILES">>,
     openat |-> <<"FILES">>, openat2 |-> <<"FILES">>, socket |-> <<"NETWORK">>,
     close |-> <<"FILES">>, close_range |-> <<"FILES">>]

\* the descriptors that a successful pipe or pipe2 of the runs creates
PipeFds == <<3, 4>>

FdCreateSyscalls ==
    {SyscallPipe("pipe", {}, PipeFds),
     SyscallPipe("pipe2", {"O_CLOEXEC"}, PipeFds),
     Syscall("open", 0, {"O_CLOEXEC"}, <<"/", "f">>),
     Syscall("openat", AtFdcwd, {}, <<"r">>),
     Syscall("openat2", AtFdcwd, {"O_CLOEXEC"}, <<"/", "a">>),
     Syscall("socket", 0, {"SOCK_STREAM"}, <<>>)}

FdUnwinds == {Unwind(TRUE, <<"f", "_start">>, FALSE)}

\* the tracer at its start, with the given syscall table
FdInit ==
    /\ processes = MapNew(InitPid, InitExec, InitWd, TRUE)
    /\ include_syscalls = FALSE
    /\ userdata = [p \in Pids |-> NoSyscall]
    /\ nevents = 0
    /\ last = NoLast
    /\ BubbleIdle
    /\ ReportIdle
    /\ CallIdle
    /\ syscalls_cm = FdDocument
    /\ cap_map = <<>>
    /\ requested = {}
    /\ policy = [default_action |-> [kind |-> ""], architectures |-> <<>>, syscalls |-> <<>>]
    /\ output = [written |-> FALSE, err |-> ""]

FdCreateNext ==
    \/ EvSyscallEntry(FdCreateSyscalls)
    \/ EvSyscallExit(FdUnwinds)

SpecFdCreate == FdInit /\ [][FdCreateNext]_vars

\* the step is the successful exit, handled without error, of the syscall
\* whose entry was the event before
PairedExitStep ==
    /\ last.op = "SyscallEntry"
    /\ last.err = ""
    /\ last'.op = "SyscallExit"
    /\ last'.pid = last.pid
    /\ ~last'.is_error
    /\ last'.err = ""

\* the table new is the table old with the descriptors of set keyed to meta
SetsOnly(old, new, set, meta) ==
    /\ DOMAIN new = DOMAIN old \cup set
    /\ \A fd \in set : new[fd] = meta
    /\ \A fd \in DOMAIN old \ set : new[fd] = old[fd]

\* a pipe or pipe2 records its two descriptors as Fifo and nothing else
PipeStep ==
    (PairedExitStep /\ last.nr \in {"pipe", "pipe2"}) =>
        SetsOnly(processes.active[last.pid].fds, processes'.active[last.pid].fds,
                 {last.syscall.pipefd[1], last.syscall.pipefd[2]},
                 [flags |-> last.syscall.flags, ty |-> [kind |-> "Fifo"]])

\* open, openat, openat2 and socket record the returned descriptor with the
\* metadata captured at the entry and nothing else
OpenStep ==
    (PairedExitStep /\ last.nr \in {"open", "openat", "openat2", "socket"}) =>
        SetsOnly(processes.active[last.pid].fds, processes'.active[last.pid].fds,
                 {last'.sval}, userdata[last.pid].meta[1].typed.meta)

\* C31: after a successful pipe or pipe2 exit the FD table holds a Fifo entry
\* with the captured flags for each of the two descriptors that the call
\* created, and no other entry is added or overwritten; after a successful
\* open, openat, openat2 or socket exit the entry of the returned descriptor,
\* and only that entry, is the metadata captured at the entry
C31_FdCreateEntries == [][PipeStep /\ OpenStep]_vars

\* the half of C31 on open, openat, openat2 and socket
OpenEntriesOnly == [][OpenStep]_vars

FdCloseSyscalls ==
    {Syscall("open", 0, {}, <<"/", "f">>),
     Syscall("openat", 3, {}, <<"r">>),
     Syscall("close", 3, {}, <<>>),
     Syscall("close", 4, {}, <<>>),
     SyscallCloseRange(3, 4),
     SyscallCloseRange(4, 4),
     SyscallCloseRange(4, 9),
     SyscallCloseRange(0, 3),
     SyscallCloseRange(4, 3),
     SyscallCloseRange(5, 9)}

FdCloseNext ==
    \/ EvSyscallEntry(FdCloseSyscalls)
    \/ EvSyscallExit(FdUnwinds)

SpecFdClose == FdInit /\ [][FdCloseNext]_vars

\* the table new is the table old without the descriptors of set
RemovesOnly(old, new, set) ==
    /\ DOMAIN new = DOMAIN old \ set
    /\ \A fd \in DOMAIN new : new[fd] = old[fd]

CloseStep ==
    (PairedExitStep /\ last.nr = "close") =>
        LET old == processes.active[last.pid].fds
            new == processes'.active[last.pid].fds
        IN  /\ RemovesOnly(old, new, {last.syscall.fd})
            /\ last.syscall.fd \notin DOMAIN old => new = old

CloseRangeStep ==
    (PairedExitStep /\ last.nr = "close_range") =>
        LET old == processes.active[last.pid].fds
            new == processes'.active[last.pid].fds
            lo == last.syscall.fd
            hi == last.syscall.max_fd
        IN  /\ RemovesOnly(old, new, {fd \in lo..hi : TRUE})
            /\ DOMAIN old \cap (lo..hi) = {} => new = old

\* C32: after a successful close(fd) exit the FD table is the table before
\* without fd; after a successful close_range(lo, hi) exit it is the table
\* before without the descriptors of lo..hi, both ends included; the other
\* entries keep their metadata, and closing a descriptor that the table does
\* not hold changes nothing
C32_CloseRemoves == [][CloseStep /\ CloseRangeStep]_vars

\* close_range(4, 9) succeeded on the table of 3 (inferred from procfs as a
\* directory) and 4: the table holds 3 alone
C32_Witness ==
    /\ last.op = "SyscallExit"
    /\ last.nr = "close_range"
    /\ ~last.is_error /\ last.err = ""
    /\ nevents = 4
    /\ processes.active[last.pid].fds = (3 :> FdMeta({}, TypeDirectory(<<"/", "d">>)))
    /\ "FILES" \in processes.active[last.pid].caps

\* close(3) succeeded on the table of 3 and 4: the table holds 4 alone
C32_WitnessClose ==
    /\ last.op = "SyscallExit"
    /\ last.nr = "close"
    /\ ~last.is_error /\ last.err = ""
    /\ nevents = 4
    /\ DOMAIN processes.active[last.pid].fds = {4}
    /\ processes.active[last.pid].fds[4].ty = TypeFile(<<"/", "d", "r">>)

-----------------------------------------------------------------------------
(* src/osv-cache/src/lib.rs: Cache::update.  The cache directory holds one
   file per advisory, here the modified time of the advisory by its id, and
   possibly an entry that is not a file; the remote side serves the archive
   of all advisories, the list of their modified times and each advisory *)

NumAdvisories == 2
MaxModified == 2

AdvisoryNames == <<"A", "B", "C", "D">>
AdvisoryIds == {AdvisoryNames[i] : i \in 1..NumAdvisories}
ModifiedTimes == 1..MaxModified

\* the advisories of a directory or of the remote side
Advisories == UNION {[ids -> ModifiedTimes] : ids \in SUBSET AdvisoryIds}

\* Cache::is_empty: the loop over read_dir returns Ok(true) at the first entry
\* that is a file, and Ok(true) after the loop
IsEmpty(cache) ==
    IF \E id \in DOMAIN cache.files : TRUE
    THEN TRUE
    ELSE TRUE

\* Cache::update_from_all: all.zip is downloaded and extracted over the
\* directory
UpdateFromAll(cache, remote) ==
    [err |-> "",
     requests |-> <<"all.zip">>,
     cache |-> [cache EXCEPT !.files =
                    [id \in DOMAIN cache.files \cup DOMAIN remote |->
                        IF id \in DOMAIN remote THEN remote[id] ELSE cache.files[id]]]]

RECURSIVE UpdateModifiedFrom(_, _, _, _)
\* the loop of update over Modified::from_reader(response), a BTreeMap, from
\* the i-th id on
UpdateModifiedFrom(cache, remote, i, requests) ==
    IF i > NumAdvisories THEN [err |-> "", requests |-> requests, cache |-> cache]
    ELSE LET id == AdvisoryNames[i] IN
         IF id \notin DOMAIN remote
         THEN UpdateModifiedFrom(cache, remote, i + 1, requests)
         ELSE IF id \in DOMAIN cache.files /\ cache.files[id] >= remote[id]
         THEN UpdateModifiedFrom(cache, remote, i + 1, requests)
         ELSE UpdateModifiedFrom(
                 [cache EXCEPT !.files =
                     [x \in DOMAIN cache.files \cup {id} |->
                         IF x = id THEN remote[id] ELSE cache.files[x]]],
                 remote, i + 1, Append(requests, id))

\* Cache::update
Update(cache, remote) ==
    IF IsEmpty(cache) THEN UpdateFromAll(cache, remote)
    ELSE UpdateModifiedFrom(cache, remote, 1, <<"modified_id.csv">>)

OsvInit ==
    /\ argument \in {[fn |-> "update",
                      cache |-> [files |-> files, other |-> other],
                      remote |-> remote] :
                        files \in Advisories, other \in BOOLEAN, remote \in Advisories}
    /\ returned = NoCall
    /\ last = NoLast
    /\ BubbleIdle
    /\ TracerIdle
    /\ ReportIdle
    /\ SeccompIdle

OsvUpdate ==
    /\ returned = NoCall
    /\ returned' = [fn |-> "update",
                    result |-> Update(argument.cache, argument.remote)]
    /\ UNCHANGED <<argument, last>>
    /\ UNCHANGED <<bubbleVars, tracerVars, reportVars, seccompVars>>

OsvNext == OsvUpdate

SpecOsv == OsvInit /\ [][OsvNext]_vars

\* the advisories of the list that are missing in the directory or older there
Outdated(files, remote) ==
    {id \in DOMAIN remote : id \notin DOMAIN files \/ files[id] < remote[id]}

Requested(requests) == {requests[i] : i \in DOMAIN requests}

\* C33: update downloads and extracts the archive of all advisories only
\* when the directory holds no advisory file; when it holds one, update
\* fetches the list of modified times and downloads exactly the advisories
\* that are missing in the directory or older there than in the list, and
\* leaves the other files as they are
C33_UpdateIncremental ==
    (returned # NoCall /\ returned.fn = "update") =>
        LET files == argument.cache.files
            remote == argument.remote
            result == returned.result
        IN  /\ ("all.zip" \in Requested(result.requests)) = (DOMAIN files = {})
            /\ DOMAIN files # {} =>
                  /\ "modified_id.csv" \in Requested(result.requests)
                  /\ Requested(result.requests) \ {"modified_id.csv"} =
                        Outdated(files, remote)
                  /\ \A id \in DOMAIN files \ Outdated(files, remote) :
                        result.cache.files[id] = files[id]

-----------------------------------------------------------------------------
(* Events that name a process the map does not hold: Runtime::main hands     *)
(* every event of the tracer to handle_event, logs the error and goes on.    *)

\* the syscalls of the runs with unknown processes
UnknownSyscalls ==
    {Syscall("read", 0, {}, <<>>),
     Syscall("open", 0, {}, <<"/", "f">>)}

UnknownInit == TracerInit(TRUE, FALSE)

\* Event::SyscallEntry of any pid of the tree, in the map or not
EvSyscallEntryAny(syscalls) ==
    /\ nevents < MaxEvents
    /\ \E pid \in Pids, syscall \in syscalls :
          LET r == HandleSyscallEntry(processes, pid, syscall, TRUE, ProcfsErr)
          IN  /\ ~userdata[pid].in_syscall
              /\ processes' = r.map
              /\ userdata' = [userdata EXCEPT ![pid] =
                    [in_syscall |-> TRUE, nr |-> syscall.nr, meta |-> r.userdata]]
              /\ last' = [op |-> "SyscallEntry", pid |-> pid, nr |-> syscall.nr,
                          err |-> r.err, syscall |-> syscall]
    /\ nevents' = nevents + 1
    /\ UNCHANGED include_syscalls
    /\ UNCHANGED <<bubbleVars, reportVars, seccompVars, callVars>>

\* Event::Exited of a process whose syscall is in flight, the exit of that
\* syscall still to come with the record its entry set
EvExitedInSyscall ==
    /\ nevents < MaxEvents
    /\ \E pid \in Pids :
          /\ userdata[pid].in_syscall
          /\ processes' = MapExit(processes, pid)
          /\ last' = [op |-> "Exited", pid |-> pid, err |-> ""]
    /\ nevents' = nevents + 1
    /\ UNCHANGED <<include_syscalls, userdata>>
    /\ UNCHANGED <<bubbleVars, reportVars, seccompVars, callVars>>

UnknownNext ==
    \/ EvClone
    \/ EvExited
    \/ EvExitedInSyscall
    \/ EvSyscallEntryAny(UnknownSyscalls)
    \/ EvSyscallExit(ProcUnwinds)

SpecUnknown == UnknownInit /\ [][UnknownNext]_vars

\* the step handled an event
Handled == nevents' = nevents + 1

\* the step left the active map, the inactive list and every state alone
MapUntouched == processes' = processes

\* a Clone whose parent is not active fails with ProcessFind
CloneUnknownStep ==
    (Handled /\ last'.op = "Clone" /\ last'.pid \notin DOMAIN processes.active)
        => (last'.err = "ProcessFind" /\ MapUntouched
            /\ last'.child \notin DOMAIN processes'.active)

\* a SyscallEntry of a pid that is not active fails with ProcessUnknown
EntryUnknownStep ==
    (Handled /\ last'.op = "SyscallEntry"
        /\ last'.pid \notin DOMAIN processes.active)
        => (last'.err = "ProcessUnknown" /\ MapUntouched)

\* a successful SyscallExit of a pid that is not active fails with
\* ProcessUnknown
ExitUnknownStep ==
    (Handled /\ last'.op = "SyscallExit" /\ ~last'.is_error
        /\ last'.pid \notin DOMAIN processes.active)
        => (last'.err = "ProcessUnknown" /\ MapUntouched)

\* a successful SyscallExit of a pid that is not active and that carries the
\* record of its entry fails with ProcessUnknown
ExitUnknownWithMetaStep ==
    (Handled /\ last'.op = "SyscallExit" /\ ~last'.is_error
        /\ last'.pid \notin DOMAIN processes.active
        /\ userdata[last'.pid].meta # <<>>)
        => (last'.err = "ProcessUnknown" /\ MapUntouched)

\* a successful SyscallExit without the record of its entry fails with
\* SyscallMetaMissing
ExitNoMetaStep ==
    (Handled /\ last'.op = "SyscallExit" /\ ~last'.is_error
        /\ userdata[last'.pid].meta = <<>>)
        => (last'.err = "SyscallMetaMissing" /\ MapUntouched)

\* the three errors never come with a change of the map
RejectedStep ==
    (Handled /\ last'.err \in {"ProcessFind", "ProcessUnknown", "SyscallMetaMissing"})
        => MapUntouched

\* after a rejected event the next one is handled
StillHandled ==
    (/\ last.op # "none"
     /\ last.err \in {"ProcessFind", "ProcessUnknown", "SyscallMetaMissing"}
     /\ nevents < MaxEvents)
        => ENABLED UnknownNext

\* C34: an event that names an unknown process is rejected and changes
\* nothing: a Clone of a parent that is not active fails with ProcessFind and
\* makes no child, a SyscallEntry or a successful SyscallExit of a pid that is
\* not active fails with ProcessUnknown, a successful SyscallExit without the
\* record of its entry fails with SyscallMetaMissing; the map is as before and
\* the next event is handled
C34_UnknownRejected ==
    /\ [][/\ CloneUnknownStep /\ EntryUnknownStep /\ ExitUnknownStep
          /\ ExitNoMetaStep /\ RejectedStep]_vars
    /\ []StillHandled

\* C34 as the code has it: the exit looks for the record of the entry before
\* it looks for the process, so the exit of a pid that is not active fails
\* with ProcessUnknown only when it carries that record, and with
\* SyscallMetaMissing when it does not
C34_UnknownRejectedByRecord ==
    /\ [][/\ CloneUnknownStep /\ EntryUnknownStep /\ ExitUnknownWithMetaStep
          /\ ExitNoMetaStep /\ RejectedStep]_vars
    /\ []StillHandled

\* a run that saw an exit rejected for its process, with a process that had
\* exited in the syscall, and another event handled after it
C34_Witness ==
    /\ last.op = "SyscallExit"
    /\ last.err = "ProcessUnknown"
    /\ Len(processes.inactive) = 1
    /\ nevents < MaxEvents

-----------------------------------------------------------------------------
(* The indices of the call graph and the function map of one process *)

\* every State the map holds, active or exited
AllStates(map) ==
    {map.active[p] : p \in DOMAIN map.active}
    \cup {map.inactive[i][2] : i \in DOMAIN map.inactive}

\* both ends of every edge of the serialized process index its functions
\* array, and FunctionMap::get finds them
EdgesIndexFunctions(state) ==
    LET proc == IntoProcess(state)
    IN  \A i \in DOMAIN proc.edges :
           \A k \in {1, 2} :
              /\ 0 <= proc.edges[i][k]
              /\ proc.edges[i][k] < Len(proc.functions)
              /\ ValidIdx(state.functions, proc.edges[i][k])

\* C35: after any sequence of tracer events, both ends of every edge of a
\* process's call graph are smaller than the number of functions of that
\* process's function map, so every serialized edge indexes an entry of the
\* process's functions array and a lookup by an edge's end finds a function
C35_EdgesIndexFunctions ==
    \A state \in AllStates(processes) : EdgesIndexFunctions(state)

\* a process with three functions and two edges has cloned a child, whose
\* graph and function map are empty
C35_Witness ==
    /\ last.op = "Clone"
    /\ last.err = ""
    /\ Len(processes.active[last.pid].call_graph) = 2
    /\ Len(processes.active[last.pid].functions.functions) = 3
    /\ processes.active[last.child].call_graph = <<>>

-----------------------------------------------------------------------------
(* The capability set of a process and the capabilities of its functions *)

\* the capabilities some function of the state's function map holds
AttributedCaps(state) ==
    UNION {Keys(state.functions.functions[i]) :
             i \in DOMAIN state.functions.functions}

\* a process that stays active keeps every capability it had, one that exits
\* takes its state to the end of the inactive list, and the list keeps its
\* entries
CapsGrowStep ==
    /\ \A p \in DOMAIN processes.active :
          IF p \in DOMAIN processes'.active
          THEN processes.active[p].caps \subseteq processes'.active[p].caps
          ELSE /\ Len(processes'.inactive) = Len(processes.inactive) + 1
               /\ processes'.inactive[Len(processes'.inactive)][1] = p
               /\ processes.active[p].caps
                    \subseteq processes'.inactive[Len(processes'.inactive)][2].caps
    /\ \A i \in DOMAIN processes.inactive :
          /\ i \in DOMAIN processes'.inactive
          /\ processes.inactive[i][2].caps \subseteq processes'.inactive[i][2].caps

\* every capability of every function of a process is in the process's set
AttributedAggregated ==
    \A state \in AllStates(processes) : AttributedCaps(state) \subseteq state.caps

====
